---- MODULE Spec2Model ----
(***************************************************************************)
(* A model of grm, the multi-repository git manager (luxagen/git-tools):   *)
(*  - the reconciliation engine: process_listfile / process_repo_line /    *)
(*    process_repo_cells / process_repo (src/src/main.rs) and the          *)
(*    repository operations it calls (src/src/repository.rs);              *)
(*  - the escaped-delimited tokenizer: parse_config_cell,                  *)
(*    parse_config_line, ConfigLineIterator (src/src/config.rs).           *)
(* Every external process (git, ssh, the configure shell) is one step of   *)
(* the model with a nondeterministic outcome.  Strings handled by the      *)
(* tokenizer are sequences of one-character strings.                       *)
(***************************************************************************)
EXTENDS Integers, Sequences, FiniteSets, TLC

VARIABLES
    mode,       \* the PrimaryMode given on the command line
    ops,        \* the global Operations derived from it
    config,     \* the Config fields the engine reads
    lf,         \* the listfile: its declarations, in file order
    fs,         \* the local path of each declaration: its state and origin remote
    fs0,        \* fs as it was before the first invocation (history)
    run,        \* "first" or "second" invocation of the program on this listfile
    idx,        \* number of declarations the loop of process_listfile has taken
    pc,         \* the next external call of process_repo, "loop" or "done"
    acts,       \* external processes started for the current declaration
    out,        \* messages printed for the current declaration
    rets,       \* values returned by the repository functions for the current declaration
    handed,     \* declarations handed to process_repo in this invocation
    virgin,     \* create_new's local: the directory had no .git
    start,      \* the local path as process_repo found it for the current declaration
    failed,     \* declarations whose process_repo returned Err in this invocation
    orig,       \* the cell content a writer wants to store
    content,    \* ConfigLineIterator.content
    position,   \* ConfigLineIterator.position
    lines,      \* the Lines the iterator has yielded so far
    tstate,     \* the consumer of the iterator: "reading", "end", "error" or "overflow"
    parsed,     \* what parse_config_cell returned for content, once it was called
    cfg,        \* the Config the cascade is filling (config.rs 11-38)
    lastSet,    \* the last call of set_from_string: its source, key, value and the Config before
    decl,       \* the cells, directories and tree filter process_repo_cells is given
    resolved,   \* what process_repo_cells derived from decl
    environ,    \* the GRM_ variables of the process environment, once load_from_env read them
    todo,       \* the variables the loop of load_from_env has still to take
    fileCfg,    \* the Config as load_from_file left it (history)
    seen,       \* the lines process_listfile has taken: inline settings, and declarations with the Config they were resolved with
    child,      \* the environment handed to a spawned child, and the Config the child derives
    tree,       \* the entries of the listfile's directory, in the order read_dir yields them
    stack,      \* the calls of recurse_listfiles in progress: directory and position
    spawns,     \* the children recurse_to_subdirectory has run, with their exit codes
    argv,       \* the trailing command-line arguments (Args.args)
    invoked     \* the last external command built: its directory and argument list

engineVars == <<mode, ops, config, lf, fs, fs0, run, idx, pc, acts, out, rets, handed, virgin,
                start, failed>>
tokVars == <<orig, content, position, lines, tstate>>
pureVars == <<parsed, cfg, lastSet, decl, resolved>>
procVars == <<environ, todo, fileCfg, seen, child>>
sysVars == <<tree, stack, spawns, argv, invoked>>
vars == <<mode, ops, config, lf, fs, fs0, run, idx, pc, acts, out, rets, handed, virgin,
          start, failed, orig, content, position, lines, tstate, parsed, cfg, lastSet, decl,
          resolved, environ, todo, fileCfg, seen, child, tree, stack, spawns, argv, invoked>>

(***************************************************************************)
(* Bounds of the model.                                                    *)
(***************************************************************************)
MaxDecls == 2
MaxLen == 3

(***************************************************************************)
(* mode.rs                                                                 *)
(***************************************************************************)
PrimaryModes ==
    {"clone", "git", "set-remote", "configure", "list-rrel", "list-rurl", "list-lrel",
     "run", "new"}

OperationsDefault ==
    [clone |-> FALSE, configure |-> FALSE, set_remote |-> FALSE, git |-> FALSE,
     new |-> FALSE, debug |-> FALSE, list_rrel |-> FALSE, list_rurl |-> FALSE,
     list_lrel |-> FALSE]

\* A mapping in which listing the remote URLs also clones
OperationsFrom_ListingClones(m) ==
    CASE m = "clone" -> [OperationsDefault EXCEPT !.clone = TRUE, !.configure = TRUE]
      [] m = "git" -> [OperationsDefault EXCEPT !.git = TRUE, !.set_remote = TRUE,
                                                !.configure = TRUE]
      [] m = "set-remote" -> [OperationsDefault EXCEPT !.set_remote = TRUE]
      [] m = "configure" -> [OperationsDefault EXCEPT !.configure = TRUE]
      [] m = "list-rrel" -> [OperationsDefault EXCEPT !.list_rrel = TRUE]
      [] m = "list-rurl" -> [OperationsDefault EXCEPT !.list_rurl = TRUE, !.clone = TRUE]
      [] m = "list-lrel" -> [OperationsDefault EXCEPT !.list_lrel = TRUE]
      [] m = "run" -> [OperationsDefault EXCEPT !.clone = TRUE, !.set_remote = TRUE,
                                                !.configure = TRUE]
      [] m = "new" -> [OperationsDefault EXCEPT !.new = TRUE]

OperationsFrom(m) ==
    CASE m = "clone" -> [OperationsDefault EXCEPT !.clone = TRUE, !.configure = TRUE]
      [] m = "git" -> [OperationsDefault EXCEPT !.git = TRUE, !.set_remote = TRUE,
                                                !.configure = TRUE]
      [] m = "set-remote" -> [OperationsDefault EXCEPT !.set_remote = TRUE]
      [] m = "configure" -> [OperationsDefault EXCEPT !.configure = TRUE]
      [] m = "list-rrel" -> [OperationsDefault EXCEPT !.list_rrel = TRUE]
      [] m = "list-rurl" -> [OperationsDefault EXCEPT !.list_rurl = TRUE]
      [] m = "list-lrel" -> [OperationsDefault EXCEPT !.list_lrel = TRUE]
      [] m = "run" -> [OperationsDefault EXCEPT !.clone = TRUE, !.set_remote = TRUE,
                                                !.configure = TRUE]
      [] m = "new" -> [OperationsDefault EXCEPT !.new = TRUE]

is_listing_mode(m) == m \in {"list-rrel", "list-rurl", "list-lrel"}

(***************************************************************************)
(* The Config fields read by process_repo and repository.rs.  The three    *)
(* remote settings are Option<String> for create_new; NoneVal is None.     *)
(***************************************************************************)
NoneVal == "<None>"

\* A value that is not there yet, and one that is (Option)
None == <<>>
Some(x) == <<x>>

ConfigNew ==
    [config_cmd |-> NoneVal, git_args |-> "", rpath_template |-> NoneVal,
     rlogin |-> NoneVal, rpath_base |-> NoneVal]

\* The settings a run can hold.  A setting is varied only under the modes whose
\* operations read it (CONFIG_CMD: configure, clone, new; GIT_ARGS: git; the
\* remote settings: new); elsewhere it keeps its default.
ConfigsFor(m) ==
    LET o == OperationsFrom(m) IN
    { [config_cmd |-> cc, git_args |-> ga, rpath_template |-> rt, rlogin |-> rl,
       rpath_base |-> rb] :
        cc \in (IF o.configure \/ o.clone \/ o.new THEN {NoneVal, "", "setup"}
                                                  ELSE {ConfigNew.config_cmd}),
        ga \in (IF o.git THEN {"", "status"} ELSE {ConfigNew.git_args}),
        rt \in (IF o.new THEN {NoneVal, "template.git"} ELSE {ConfigNew.rpath_template}),
        rl \in (IF o.new THEN {NoneVal, "", "ssh://host", "user@host"}
                         ELSE {ConfigNew.rlogin}),
        rb \in (IF o.new THEN {NoneVal, "/srv/git"} ELSE {ConfigNew.rpath_base}) }

(***************************************************************************)
(* The listfile and the filesystem.                                        *)
(***************************************************************************)
\* A declaration, as process_repo_cells sees it: whether its absolute local
\* path contains the tree filter.
Declarations == [inFilter : BOOLEAN]

Listfiles == UNION { [1..n -> Declarations] : n \in 1..MaxDecls }

NoOrigin == <<>>
OtherUrl == <<"other">>

\* get_remote_url(config, remote_rel_path) of declaration i
RemoteUrl(i) == <<"get_remote_url", i>>

\* create_new's git_remote: effective_login followed by grm_rpath
GitRemote(i) == <<"effective_login+grm_rpath", i>>

RepoStates == {"Missing", "File", "Directory", "Repo"}

PathStates ==
    { [state |-> s, origin |-> NoOrigin] : s \in RepoStates }
        \cup { [state |-> "Repo", origin |-> OtherUrl] }

(***************************************************************************)
(* process.rs: the outcome of starting a process and waiting for it.       *)
(***************************************************************************)
NoSuchRemote == 2

ExitCodes == {0, 1, NoSuchRemote}

Outcomes ==
    { [spawned |-> FALSE, code |-> 0] }
        \cup { [spawned |-> TRUE, code |-> c] : c \in ExitCodes }

Succeeded(o) == o.spawned /\ o.code = 0

Act(kind, url, o) == [kind |-> kind, url |-> url, spawned |-> o.spawned, code |-> o.code]

Ret(fn, ok) == [fn |-> fn, ok |-> ok]

(***************************************************************************)
(* repository.rs / main.rs: the order of the calls on each path of         *)
(* process_repo.  Each operator gives the step that follows step `after`.  *)
(***************************************************************************)
HasConfigCmd == config.config_cmd \notin {NoneVal, ""}

\* The same calls with check_out moved in front of configure_repo.
CloneNext_CheckoutFirst(after) ==
    CASE after = "clone" -> "check_out"
      [] after = "check_out" -> "clone_configure"
      [] after = "clone_configure" -> "loop"

\* The same calls with the origin set again between configure and checkout.
CloneNext_ThenSetRemote(after) ==
    CASE after = "clone" -> "clone_configure"
      [] after = "clone_configure" -> IF ops.set_remote THEN "set_url" ELSE "check_out"
      [] after = "check_out" -> "loop"

\* main.rs 112-117: clone, configure, checkout
CloneNext(after) ==
    CASE after = "clone" -> "clone_configure"
      [] after = "clone_configure" -> "check_out"
      [] after = "check_out" -> "loop"

\* The same calls with configure_repo moved in front of set_remote.
RepoNext_ConfigureFirst(after) ==
    LET gitStep == IF ops.git /\ config.git_args # "" THEN "run_git" ELSE "loop"
        remStep == IF ops.set_remote THEN "set_url" ELSE gitStep
        cfgStep == IF ops.configure THEN "configure" ELSE remStep
    IN  CASE after = "start" -> cfgStep
          [] after = "configure" -> remStep
          [] after = "set_remote" -> gitStep
          [] after = "run_git" -> "loop"

\* The same calls followed by a check_out of the existing repository.
RepoNext_ThenCheckout(after) ==
    LET gitStep == IF ops.git /\ config.git_args # "" THEN "run_git" ELSE "check_out"
        cfgStep == IF ops.configure THEN "configure" ELSE gitStep
        remStep == IF ops.set_remote THEN "set_url" ELSE cfgStep
    IN  CASE after = "start" -> remStep
          [] after = "set_remote" -> cfgStep
          [] after = "configure" -> gitStep
          [] after = "run_git" -> "check_out"

\* main.rs 144-158: set_remote, then configure_repo, then run_git_command
RepoNext(after) ==
    LET gitStep == IF ops.git /\ config.git_args # "" THEN "run_git" ELSE "loop"
        cfgStep == IF ops.configure THEN "configure" ELSE gitStep
        remStep == IF ops.set_remote THEN "set_url" ELSE cfgStep
    IN  CASE after = "start" -> remStep
          [] after = "set_remote" -> cfgStep
          [] after = "configure" -> gitStep
          [] after = "run_git" -> "loop"

\* The same calls with execute_config_cmd moved in front of the ssh call.
CreateNewNext_ConfigureFirst(after) ==
    CASE after = "confirm" -> "new_configure"
      [] after = "new_configure" -> "ssh"
      [] after = "ssh" -> "git_init"
      [] after = "git_init" -> "add_git_remote"
      [] after = "add_git_remote" -> IF virgin THEN "checkout_master" ELSE "loop"
      [] after = "checkout_master" -> "loop"

\* repository.rs 188-225: ssh, git init, configure, remote add, checkout master
CreateNewNext(after) ==
    CASE after = "confirm" -> "ssh"
      [] after = "ssh" -> "git_init"
      [] after = "git_init" -> "new_configure"
      [] after = "new_configure" -> "add_git_remote"
      [] after = "add_git_remote" -> IF virgin THEN "checkout_master" ELSE "loop"
      [] after = "checkout_master" -> "loop"

(***************************************************************************)
(* How a call of process_repo ends.                                        *)
(***************************************************************************)
\* process_repo returns Ok(()) after printing msgs
ReturnOk(msgs) ==
    /\ pc' = "loop"
    /\ out' = out \o msgs
    /\ failed' = failed

\* process_repo returns Err and the error is passed up: the run ends there.
ReturnErr_Abort ==
    /\ pc' = "done"
    /\ out' = Append(out, "Error processing")
    /\ failed' = failed \cup {idx}

\* process_repo returns Err: process_repo_cells (main.rs 328-330) reports it
ReturnErr ==
    /\ pc' = "loop"
    /\ out' = Append(out, "Error processing")
    /\ failed' = failed \cup {idx}

\* A step of the current path ended well: go on with the next one.
Continue(next, msgs) ==
    /\ pc' = next
    /\ out' = out \o msgs
    /\ failed' = failed

(***************************************************************************)
(* main.rs: process_listfile, process_repo_line, process_repo_cells and    *)
(* the head of process_repo, up to its first external call.                *)
(***************************************************************************)
Entered(next, msgs) == [pc |-> next, out |-> msgs]

\* process_repo without the test of operations.clone on a missing path.
ProcessRepoHead_NoCloneCheck(i) ==
    IF ops.list_rrel THEN Entered("loop", <<"print rrel">>)
    ELSE IF ops.list_lrel THEN Entered("loop", <<"print lrel">>)
    ELSE IF ops.list_rurl THEN Entered("loop", <<"print rurl">>)
    ELSE IF is_listing_mode(mode) THEN Entered("loop", <<>>)
    ELSE IF fs[i].state = "Missing"
         THEN IF ops.new
              THEN Entered("loop", <<"ERROR does not exist">>)
              ELSE Entered("clone", <<>>)
    ELSE IF fs[i].state = "File" THEN Entered("loop", <<"ERROR is not a directory">>)
    ELSE Entered("rev_parse", <<>>)

\* process_repo with the state of the local path looked at before the listing modes.
ProcessRepoHead_StateFirst(i) ==
    IF fs[i].state = "Missing"
    THEN IF ops.new \/ ~ops.clone
         THEN Entered("loop", <<"ERROR does not exist">>)
         ELSE Entered("clone", <<>>)
    ELSE IF fs[i].state = "File" THEN Entered("loop", <<"ERROR is not a directory">>)
    ELSE IF ops.list_rrel THEN Entered("loop", <<"print rrel">>)
    ELSE IF ops.list_lrel THEN Entered("loop", <<"print lrel">>)
    ELSE IF ops.list_rurl THEN Entered("loop", <<"print rurl">>)
    ELSE IF is_listing_mode(mode) THEN Entered("loop", <<>>)
    ELSE Entered("rev_parse", <<>>)

\* process_repo without the test path.is_dir().
ProcessRepoHead_NoDirCheck(i) ==
    IF ops.list_rrel THEN Entered("loop", <<"print rrel">>)
    ELSE IF ops.list_lrel THEN Entered("loop", <<"print lrel">>)
    ELSE IF ops.list_rurl THEN Entered("loop", <<"print rurl">>)
    ELSE IF is_listing_mode(mode) THEN Entered("loop", <<>>)
    ELSE IF fs[i].state = "Missing"
         THEN IF ops.new \/ ~ops.clone
              THEN Entered("loop", <<"ERROR does not exist">>)
              ELSE Entered("clone", <<>>)
    ELSE Entered("rev_parse", <<>>)

\* process_repo (main.rs 59-124) for declaration i: the listing modes, then
\* the state of the local path.  Gives the first external call ("loop" when
\* process_repo returns without one) and what was printed.
ProcessRepoHead(i) ==
    IF ops.list_rrel THEN Entered("loop", <<"print rrel">>)
    ELSE IF ops.list_lrel THEN Entered("loop", <<"print lrel">>)
    ELSE IF ops.list_rurl THEN Entered("loop", <<"print rurl">>)
    ELSE IF is_listing_mode(mode) THEN Entered("loop", <<>>)
    ELSE IF fs[i].state = "Missing"
         THEN IF ops.new \/ ~ops.clone
              THEN Entered("loop", <<"ERROR does not exist">>)
              ELSE Entered("clone", <<>>)
    ELSE IF fs[i].state = "File" THEN Entered("loop", <<"ERROR is not a directory">>)
    ELSE Entered("rev_parse", <<>>)

\* process_repo_cells (main.rs 305-330): whether declaration i is handed to
\* process_repo
PassesTreeFilter(i) == lf[i].inFilter

\* One turn of the loop of process_listfile: process_repo_line hands the
\* declaration to process_repo_cells, which applies the tree filter and calls
\* process_repo.
ProcessRepoLine ==
    /\ pc = "loop"
    /\ idx < Len(lf)
    /\ idx' = idx + 1
    /\ acts' = <<>>
    /\ rets' = <<>>
    /\ start' = fs[idx + 1]
    /\ IF PassesTreeFilter(idx + 1)
       THEN /\ handed' = Append(handed, idx + 1)
            /\ pc' = ProcessRepoHead(idx + 1).pc
            /\ out' = ProcessRepoHead(idx + 1).out
       ELSE /\ pc' = "loop"
            /\ out' = <<>>
            /\ UNCHANGED handed
    /\ UNCHANGED <<mode, ops, config, lf, fs, fs0, run, virgin, failed>>
    /\ UNCHANGED <<tokVars, pureVars, procVars, sysVars>>

\* The iterator is exhausted: process_listfile returns (main.rs 200-212).
EndOfListfile ==
    /\ pc = "loop"
    /\ idx = Len(lf)
    /\ pc' = "done"
    /\ UNCHANGED <<mode, ops, config, lf, fs, fs0, run, idx, acts, out, rets, handed, virgin,
                   start, failed>>
    /\ UNCHANGED <<tokVars, pureVars, procVars, sysVars>>

\* The same command line is run a second time on the same tree (main.rs 483-532).
Rerun ==
    /\ pc = "done"
    /\ run = "first"
    /\ run' = "second"
    /\ pc' = "loop"
    /\ idx' = 0
    /\ acts' = <<>>
    /\ out' = <<>>
    /\ rets' = <<>>
    /\ handed' = <<>>
    /\ failed' = {}
    /\ virgin' = FALSE
    /\ UNCHANGED <<mode, ops, config, lf, fs, fs0, start>>
    /\ UNCHANGED <<tokVars, pureVars, procVars, sysVars>>

(***************************************************************************)
(* repository.rs: the external calls.                                      *)
(***************************************************************************)
\* Frame of a step of process_repo on the current declaration that builds an
\* external command of its own.
CommandFrame == UNCHANGED <<mode, ops, config, lf, fs0, run, idx, handed, start, orig, content,
                            position, lines, tstate, parsed, cfg, lastSet, decl, resolved,
                            environ, todo, fileCfg, seen, child, tree, stack, spawns, argv>>

\* Frame of any other step of process_repo on the current declaration.
StepFrame == CommandFrame /\ UNCHANGED invoked

\* The working directory and the media path of declaration i, as
\* process_repo is given them (main.rs 59)
LocalPath(i) == <<"local_path", i>>
MediaPath(i) == <<"media_path", i>>

\* An external command (process.rs 39-56, repository.rs 328-334): the program,
\* its working directory, and its arguments (for a shell, the words of the
\* command line it is given)
Invocation(program, cwd, args) == [program |-> program, cwd |-> cwd, args |-> args]

\* detect_shell_command (repository.rs 244-315): a shell and its flag that
\* takes the command line
SHELL == "sh -c"

\* is_dir_repo_root (repository.rs 9-27) and the branch on its result
\* (main.rs 126-165).  git rev-parse answers ".git" exactly at a repository root.
IsDirRepoRoot ==
    /\ pc = "rev_parse"
    /\ \E spawned \in BOOLEAN :
         LET isRepo == fs[idx].state = "Repo"
             o == [spawned |-> spawned, code |-> IF isRepo THEN 0 ELSE 1]
         IN  /\ acts' = Append(acts, Act("rev_parse", NoOrigin, o))
             /\ rets' = Append(rets, Ret("is_dir_repo_root", spawned))
             /\ IF ~spawned THEN ReturnOk(<<"Error checking">>)
                ELSE IF isRepo
                     THEN IF ops.new THEN ReturnOk(<<"already exists (skipping)">>)
                          ELSE Continue(RepoNext("start"), <<"exists">>)
                ELSE IF ~ops.new THEN ReturnOk(<<"ERROR is not a Git repository">>)
                ELSE Continue("create_new", <<"Creating new Git repository">>)
    /\ UNCHANGED <<fs, virgin>>
    /\ StepFrame

\* The clone with its exit status not looked at: configure follows in any case.
CloneRepoNoCheckout_IgnoresFailure ==
    /\ pc = "clone"
    /\ \E o \in Outcomes :
         /\ acts' = Append(acts, Act("clone", RemoteUrl(idx), o))
         /\ rets' = Append(rets, Ret("clone_repo_no_checkout", TRUE))
         /\ fs' = IF Succeeded(o)
                  THEN [fs EXCEPT ![idx] = [state |-> "Repo", origin |-> RemoteUrl(idx)]]
                  ELSE fs
         /\ Continue(CloneNext("clone"), <<>>)
    /\ UNCHANGED virgin
    /\ StepFrame

\* clone_repo_no_checkout (repository.rs 73-94), called at main.rs 113.
\* A successful git clone leaves a repository whose origin is the cloned URL.
CloneRepoNoCheckout ==
    /\ pc = "clone"
    /\ \E o \in Outcomes :
         /\ acts' = Append(acts, Act("clone", RemoteUrl(idx), o))
         /\ rets' = Append(rets, Ret("clone_repo_no_checkout", Succeeded(o)))
         /\ IF Succeeded(o)
            THEN /\ fs' = [fs EXCEPT ![idx] = [state |-> "Repo", origin |-> RemoteUrl(idx)]]
                 /\ Continue(CloneNext("clone"), <<>>)
            ELSE /\ UNCHANGED fs
                 /\ ReturnErr
    /\ UNCHANGED virgin
    /\ StepFrame

\* Where configure_repo / execute_config_cmd is called from, and what follows.
ConfigureSites == {"clone_configure", "configure", "new_configure"}

AfterConfigure(site) ==
    CASE site = "clone_configure" -> CloneNext("clone_configure")
      [] site = "configure" -> RepoNext("configure")
      [] site = "new_configure" -> CreateNewNext("new_configure")

\* configure_repo (repository.rs 97-99) and execute_config_cmd (repository.rs
\* 319-325): the command line handed to the shell is CONFIG_CMD as it is; the
\* media path configure_repo is given is not used.
config_command_line(cmd, media_path) == <<cmd>>

\* execute_config_cmd (repository.rs 317-342): nothing is run when CONFIG_CMD
\* is unset or empty; otherwise the shell runs it in the local path.
ExecuteConfigCmd ==
    /\ pc \in ConfigureSites
    /\ IF ~HasConfigCmd
       THEN /\ rets' = Append(rets, Ret("configure_repo", TRUE))
            /\ Continue(AfterConfigure(pc), <<>>)
            /\ UNCHANGED <<acts, invoked>>
       ELSE \E o \in Outcomes :
              /\ invoked' = Some(Invocation(SHELL, LocalPath(idx),
                                  config_command_line(config.config_cmd, MediaPath(idx))))
              /\ acts' = Append(acts, Act("configure", NoOrigin, o))
              /\ rets' = Append(rets, Ret("configure_repo", Succeeded(o)))
              /\ IF Succeeded(o) THEN Continue(AfterConfigure(pc), <<>>) ELSE ReturnErr
    /\ UNCHANGED <<fs, virgin>>
    /\ CommandFrame

\* check_out (repository.rs 125-132): git reset --hard through
\* run_git_command_with_warning, which fails only when git cannot be started.
CheckOut ==
    /\ pc = "check_out"
    /\ \E o \in Outcomes :
         /\ acts' = Append(acts, Act("checkout", NoOrigin, o))
         /\ rets' = Append(rets, Ret("check_out", o.spawned))
         /\ IF o.spawned
            THEN Continue(CloneNext("check_out"),
                          IF o.code = 0 THEN <<>> ELSE <<"Warning: git reset failed">>)
            ELSE ReturnErr
    /\ UNCHANGED <<fs, virgin>>
    /\ StepFrame

\* The exit status of `git remote set-url origin <url>`: 2 when there is no
\* origin remote, never 0 then, and never 2 when there is one.
GitSetUrlCodes(origin) == IF origin = NoOrigin THEN {1, NoSuchRemote} ELSE {0, 1}

\* set_remote without the fallback: every non-zero status of set-url is an error.
SetRemoteBranch_NoFallback(o) ==
    IF ~o.spawned THEN "err"
    ELSE IF o.code # 0 THEN "err"
    ELSE "ok"

\* set_remote (repository.rs 109-119): what it does with the outcome of set-url
SetRemoteBranch(o) ==
    IF ~o.spawned THEN "err"
    ELSE IF o.code = NoSuchRemote THEN "add"
    ELSE IF o.code # 0 THEN "err"
    ELSE "ok"

\* set_remote (repository.rs 102-122), first call: git remote set-url origin
SetRemoteSetUrl ==
    /\ pc = "set_url"
    /\ \E o \in Outcomes :
         /\ o.spawned => o.code \in GitSetUrlCodes(fs[idx].origin)
         /\ acts' = Append(acts, Act("set_url", RemoteUrl(idx), o))
         /\ CASE SetRemoteBranch(o) = "ok" ->
                   /\ fs' = [fs EXCEPT ![idx].origin = RemoteUrl(idx)]
                   /\ rets' = Append(rets, Ret("set_remote", TRUE))
                   /\ Continue(RepoNext("set_remote"), <<>>)
              [] SetRemoteBranch(o) = "add" ->
                   /\ UNCHANGED <<fs, rets>>
                   /\ Continue("remote_add", <<"Adding remote origin">>)
              [] SetRemoteBranch(o) = "err" ->
                   /\ UNCHANGED fs
                   /\ rets' = Append(rets, Ret("set_remote", FALSE))
                   /\ ReturnErr
    /\ UNCHANGED virgin
    /\ StepFrame

\* set_remote, second call (repository.rs 113-115): git remote add -f origin.
\* When the add fails in its fetch, the remote may already be configured.
SetRemoteAdd ==
    /\ pc = "remote_add"
    /\ \E o \in Outcomes :
         /\ acts' = Append(acts, Act("remote_add", RemoteUrl(idx), o))
         /\ rets' = Append(rets, Ret("set_remote", Succeeded(o)))
         /\ IF Succeeded(o)
            THEN /\ fs' = [fs EXCEPT ![idx].origin = RemoteUrl(idx)]
                 /\ Continue(RepoNext("set_remote"), <<>>)
            ELSE /\ \E added \in IF o.spawned THEN BOOLEAN ELSE {FALSE} :
                      fs' = IF added THEN [fs EXCEPT ![idx].origin = RemoteUrl(idx)] ELSE fs
                 /\ ReturnErr
    /\ UNCHANGED virgin
    /\ StepFrame

\* run_git_command (repository.rs 229-235), called at main.rs 151-156
RunGitCommand ==
    /\ pc = "run_git"
    /\ \E o \in Outcomes :
         /\ acts' = Append(acts, Act("run_git", NoOrigin, o))
         /\ rets' = Append(rets, Ret("run_git_command", Succeeded(o)))
         /\ IF Succeeded(o) THEN Continue(RepoNext("run_git"), <<>>) ELSE ReturnErr
    /\ UNCHANGED <<fs, virgin>>
    /\ StepFrame

\* rlogin.strip_prefix("ssh://") (repository.rs 162), on the logins of the model
StripSshPrefix(login) == IF login = "ssh://host" THEN "host" ELSE NoneVal

\* The same check without the test of the login's scheme
CreateNewConfigError_AnyLogin ==
    \/ config.rpath_template = NoneVal
    \/ config.rlogin = NoneVal
    \/ config.rpath_base = NoneVal

\* create_new (repository.rs 146-166): a required setting is missing or unusable
CreateNewConfigError ==
    \/ config.rpath_template = NoneVal
    \/ config.rlogin = NoneVal
    \/ config.rpath_base = NoneVal
    \/ config.rlogin # "" /\ StripSshPrefix(config.rlogin) = NoneVal

\* The line read at the confirmation prompt, and create_new's test of it
\* (repository.rs 183): trimmed, compared with "y" without regard to case.
Answers == {"y", "Y", "n", ""}

Confirmed(answer) == answer \in {"y", "Y"}

\* create_new (repository.rs 143-186): the settings, virgin, the prompt
CreateNew ==
    /\ pc = "create_new"
    /\ IF CreateNewConfigError
       THEN /\ rets' = Append(rets, Ret("create_new", FALSE))
            /\ ReturnErr
            /\ UNCHANGED virgin
       ELSE \E v \in BOOLEAN, answer \in Answers :
              /\ virgin' = v
              /\ IF Confirmed(answer)
                 THEN /\ Continue(CreateNewNext("confirm"), <<"About to create remote repo">>)
                      /\ UNCHANGED rets
                 ELSE /\ rets' = Append(rets, Ret("create_new", TRUE))
                      /\ ReturnOk(<<"About to create remote repo", "(aborted)", "created">>)
    /\ UNCHANGED <<fs, acts>>
    /\ StepFrame

\* What process_repo prints when create_new has returned Ok (main.rs 174-175).
Created == <<"Repository created successfully", "created">>

\* create_new (repository.rs 188-205): the remote repository, over ssh
SshCreate ==
    /\ pc = "ssh"
    /\ \E o \in Outcomes :
         /\ acts' = Append(acts, Act("ssh_create", NoOrigin, o))
         /\ IF Succeeded(o)
            THEN /\ Continue(CreateNewNext("ssh"), <<>>)
                 /\ UNCHANGED rets
            ELSE /\ rets' = Append(rets, Ret("create_new", FALSE))
                 /\ ReturnErr
    /\ UNCHANGED <<fs, virgin>>
    /\ StepFrame

\* init_git_repository (repository.rs 30-37), called at repository.rs 208
InitGitRepository ==
    /\ pc = "git_init"
    /\ \E o \in Outcomes :
         /\ acts' = Append(acts, Act("git_init", NoOrigin, o))
         /\ IF Succeeded(o)
            THEN /\ fs' = [fs EXCEPT ![idx] = [state |-> "Repo", origin |-> NoOrigin]]
                 /\ Continue(CreateNewNext("git_init"), <<>>)
                 /\ UNCHANGED rets
            ELSE /\ UNCHANGED fs
                 /\ rets' = Append(rets, Ret("create_new", FALSE))
                 /\ ReturnErr
    /\ UNCHANGED virgin
    /\ StepFrame

\* add_git_remote (repository.rs 135-140), called at repository.rs 217:
\* git remote add -f origin <git_remote>
AddGitRemote ==
    /\ pc = "add_git_remote"
    /\ \E o \in Outcomes :
         /\ acts' = Append(acts, Act("add_git_remote", GitRemote(idx), o))
         /\ IF Succeeded(o)
            THEN /\ fs' = [fs EXCEPT ![idx].origin = GitRemote(idx)]
                 /\ LET next == CreateNewNext("add_git_remote")
                    IN  /\ Continue(next, IF next = "loop" THEN Created ELSE <<>>)
                        /\ rets' = IF next = "loop"
                                   THEN Append(rets, Ret("create_new", TRUE))
                                   ELSE rets
            ELSE /\ \E added \in IF o.spawned THEN BOOLEAN ELSE {FALSE} :
                      fs' = IF added THEN [fs EXCEPT ![idx].origin = GitRemote(idx)] ELSE fs
                 /\ rets' = Append(rets, Ret("create_new", FALSE))
                 /\ ReturnErr
    /\ UNCHANGED virgin
    /\ StepFrame

\* create_new (repository.rs 219-225): git checkout master in a virgin directory
CheckoutMaster ==
    /\ pc = "checkout_master"
    /\ \E o \in Outcomes :
         /\ acts' = Append(acts, Act("checkout_master", NoOrigin, o))
         /\ rets' = Append(rets, Ret("create_new", Succeeded(o)))
         /\ IF Succeeded(o)
            THEN Continue(CreateNewNext("checkout_master"), Created)
            ELSE ReturnErr
    /\ UNCHANGED <<fs, virgin>>
    /\ StepFrame

(***************************************************************************)
(* config.rs: the tokenizer.  A text is a sequence of characters.          *)
(***************************************************************************)
LIST_SEPARATOR == "*"
BACKSLASH == "\\"
HASH == "#"
CR == "\r"
LF == "\n"

\* char::is_whitespace, on the characters of the model
IsWhitespace(c) == c \in {" ", "\t", CR, LF}

Drop(s, n) == SubSeq(s, n + 1, Len(s))

StartsWith(s, c) == s # <<>> /\ s[1] = c

\* skip_whitespace (config.rs 285-299): the number of leading characters skipped
RECURSIVE SkipCount(_)
SkipCount(input) ==
    IF input # <<>> /\ IsWhitespace(input[1]) /\ input[1] \notin {CR, LF}
    THEN 1 + SkipCount(Tail(input))
    ELSE 0

skip_whitespace(input) == Drop(input, SkipCount(input))

AtCellEnd(input) ==
    \/ input = <<>>
    \/ input[1] \in {CR, LF, LIST_SEPARATOR}

\* The same loop with an escaped whitespace character trimmed like a plain one.
RECURSIVE CellLoop_TrimEscaped(_, _, _)
CellLoop_TrimEscaped(cell, input, rtrim_pos) ==
    IF AtCellEnd(input)
    THEN [ok |-> TRUE, cell |-> SubSeq(cell, 1, rtrim_pos), rest |-> input]
    ELSE LET c == input[1]
             rest == Tail(input)
         IN  IF c = BACKSLASH
             THEN IF rest = <<>>
                  THEN [ok |-> FALSE, cell |-> <<>>, rest |-> rest]
                  ELSE CellLoop_TrimEscaped(Append(cell, rest[1]), Tail(rest),
                                            IF IsWhitespace(rest[1]) THEN rtrim_pos
                                                                     ELSE Len(cell) + 1)
             ELSE CellLoop_TrimEscaped(Append(cell, c), rest,
                                       IF IsWhitespace(c) THEN rtrim_pos ELSE Len(cell) + 1)

\* The loop of parse_config_cell (config.rs 343-386).
RECURSIVE CellLoop(_, _, _)
CellLoop(cell, input, rtrim_pos) ==
    IF AtCellEnd(input)
    THEN [ok |-> TRUE, cell |-> SubSeq(cell, 1, rtrim_pos), rest |-> input]
    ELSE LET c == input[1]
             rest == Tail(input)
         IN  IF c = BACKSLASH
             THEN IF rest = <<>>
                  THEN [ok |-> FALSE, cell |-> <<>>, rest |-> rest]
                  ELSE CellLoop(Append(cell, rest[1]), Tail(rest), Len(cell) + 1)
             ELSE CellLoop(Append(cell, c), rest,
                           IF IsWhitespace(c) THEN rtrim_pos ELSE Len(cell) + 1)

\* parse_config_cell (config.rs 328-387)
parse_config_cell(input) ==
    LET skipped == skip_whitespace(input)
    IN  IF AtCellEnd(skipped)
        THEN [ok |-> TRUE, cell |-> <<>>, rest |-> skipped]
        ELSE CellLoop(<<>>, skipped, 0)

\* slice_to_eol (config.rs 486-493)
RECURSIVE slice_to_eol(_)
slice_to_eol(input) ==
    IF input = <<>> \/ input[1] \in {CR, LF} THEN input ELSE slice_to_eol(Tail(input))

\* The line ending with CR and LF taken apart: a CRLF pair is two endings.
ConsumeLineEnding_CrThenLf(remainder) ==
    IF StartsWith(remainder, CR) THEN Tail(remainder)
    ELSE IF StartsWith(remainder, LF) THEN Tail(remainder)
    ELSE remainder

\* The line ending after the cells (config.rs 464-478)
ConsumeLineEnding(remainder) ==
    IF StartsWith(remainder, CR)
    THEN IF StartsWith(Tail(remainder), LF) THEN Drop(remainder, 2) ELSE Tail(remainder)
    ELSE IF StartsWith(remainder, LF) THEN Tail(remainder)
    ELSE remainder

\* The loop of parse_config_line over the cells after the first
\* (config.rs 427-462); gives the cells and the remainder at the break.
RECURSIVE LineLoop(_, _)
LineLoop(cells, remainder) ==
    IF ~StartsWith(remainder, LIST_SEPARATOR)
    THEN [ok |-> TRUE, cells |-> cells, rest |-> remainder]
    ELSE LET afterSep == Tail(remainder)
             r == parse_config_cell(afterSep)
         IN  IF ~r.ok THEN [ok |-> FALSE, cells |-> <<>>, rest |-> remainder]
             ELSE IF StartsWith(r.cell, HASH)
                  THEN [ok |-> TRUE, cells |-> cells, rest |-> slice_to_eol(r.rest)]
             ELSE IF afterSep = r.rest
                  THEN [ok |-> TRUE, cells |-> Append(cells, r.cell), rest |-> afterSep]
             ELSE LineLoop(Append(cells, r.cell), r.rest)

\* parse_config_line (config.rs 407-481)
parse_config_line(input) ==
    IF input = <<>> THEN [ok |-> TRUE, cells |-> <<>>, rest |-> input]
    ELSE LET first == parse_config_cell(input)
         IN  IF ~first.ok THEN [ok |-> FALSE, cells |-> <<>>, rest |-> input]
             ELSE IF StartsWith(first.cell, HASH)
                  THEN [ok |-> TRUE, cells |-> <<>>, rest |-> input]
             ELSE LET l == LineLoop(<<first.cell>>, first.rest)
                  IN  IF ~l.ok THEN [ok |-> FALSE, cells |-> <<>>, rest |-> input]
                      ELSE [ok |-> TRUE, cells |-> l.cells,
                            rest |-> ConsumeLineEnding(l.rest)]

\* ConfigLineIterator::next (config.rs 254-280) called at position pos: what
\* it returns and where it leaves the position.  A line without cells makes
\* next call itself; when the position has not moved, that recursion never
\* returns and the stack overflows.
RECURSIVE IterNextFrom(_, _)
IterNextFrom(text, pos) ==
    IF pos >= Len(text) THEN [kind |-> "none", cells |-> <<>>, position |-> pos]
    ELSE LET r == parse_config_line(Drop(text, pos))
             newpos == Len(text) - Len(r.rest)
         IN  IF ~r.ok THEN [kind |-> "err", cells |-> <<>>, position |-> pos]
             ELSE IF r.cells # <<>> THEN [kind |-> "line", cells |-> r.cells,
                                          position |-> newpos]
             ELSE IF newpos > pos THEN IterNextFrom(text, newpos)
             ELSE [kind |-> "overflow", cells |-> <<>>, position |-> newpos]

\* A consumer of the iterator (the for loops at config.rs 167 and main.rs 190)
\* asks for the next Line, until None or the first error.
IterNext ==
    /\ tstate = "reading"
    /\ LET r == IterNextFrom(content, position)
       IN  /\ position' = r.position
           /\ lines' = IF r.kind = "line" THEN Append(lines, r.cells) ELSE lines
           /\ tstate' = CASE r.kind = "line" -> "reading"
                          [] r.kind = "none" -> "end"
                          [] r.kind = "err" -> "error"
                          [] r.kind = "overflow" -> "overflow"
    /\ UNCHANGED <<orig, content>>
    /\ UNCHANGED <<engineVars, pureVars, procVars, sysVars>>

\* parse_config_cell called on a whole text (config.rs 328-387)
ParseCell ==
    /\ tstate = "reading"
    /\ position = 0
    /\ lines = <<>>
    /\ parsed = <<>>
    /\ parsed' = <<parse_config_cell(content)>>
    /\ tstate' = "cell"
    /\ UNCHANGED <<orig, content, position, lines>>
    /\ UNCHANGED <<engineVars, cfg, lastSet, decl, resolved, procVars, sysVars>>

(***************************************************************************)
(* config.rs and main.rs: the cascade that fills the Config.  A setting    *)
(* name is one symbol of a text (a run of ordinary characters).            *)
(***************************************************************************)
\* The keys of set_from_string (config.rs 209-221), and the field each one names
KnownKeys ==
    { <<"CONFIG_FILENAME">>, <<"LIST_FN">>, <<"OPT_RECURSE">>, <<"RLOGIN">>, <<"RPATH_BASE">>,
      <<"RPATH_TEMPLATE">>, <<"LOCAL_DIR">>, <<"GM_DIR">>, <<"REMOTE_DIR">>, <<"GIT_ARGS">>,
      <<"CONFIG_CMD">>, <<"RECURSE_PREFIX">>, <<"TREE_FILTER">> }

FieldOf(key) ==
    CASE key = <<"CONFIG_FILENAME">> -> "config_filename"
      [] key = <<"LIST_FN">> -> "list_filename"
      [] key = <<"OPT_RECURSE">> -> "recurse_enabled"
      [] key = <<"RLOGIN">> -> "rlogin"
      [] key = <<"RPATH_BASE">> -> "rpath_base"
      [] key = <<"RPATH_TEMPLATE">> -> "rpath_template"
      [] key = <<"LOCAL_DIR">> -> "local_dir"
      [] key = <<"GM_DIR">> -> "gm_dir"
      [] key = <<"REMOTE_DIR">> -> "remote_dir"
      [] key = <<"GIT_ARGS">> -> "git_args"
      [] key = <<"CONFIG_CMD">> -> "config_cmd"
      [] key = <<"RECURSE_PREFIX">> -> "recurse_prefix"
      [] key = <<"TREE_FILTER">> -> "tree_filter"

\* set_from_string that does not know RLOGIN and sets gm_dir along with local_dir
set_from_string_Partial(c, key, value) ==
    CASE key = <<"CONFIG_FILENAME">> -> [c EXCEPT !.config_filename = value]
      [] key = <<"LIST_FN">> -> [c EXCEPT !.list_filename = value]
      [] key = <<"OPT_RECURSE">> -> [c EXCEPT !.recurse_enabled = (value # <<>>)]
      [] key = <<"RPATH_BASE">> -> [c EXCEPT !.rpath_base = value]
      [] key = <<"RPATH_TEMPLATE">> -> [c EXCEPT !.rpath_template = value]
      [] key = <<"LOCAL_DIR">> -> [c EXCEPT !.local_dir = value, !.gm_dir = value]
      [] key = <<"GM_DIR">> -> [c EXCEPT !.gm_dir = value]
      [] key = <<"REMOTE_DIR">> -> [c EXCEPT !.remote_dir = value]
      [] key = <<"GIT_ARGS">> -> [c EXCEPT !.git_args = value]
      [] key = <<"CONFIG_CMD">> -> [c EXCEPT !.config_cmd = value]
      [] key = <<"RECURSE_PREFIX">> -> [c EXCEPT !.recurse_prefix = value]
      [] key = <<"TREE_FILTER">> -> [c EXCEPT !.tree_filter = value]
      [] OTHER -> c

\* Config::set_from_string (config.rs 207-224)
set_from_string(c, key, value) ==
    CASE key = <<"CONFIG_FILENAME">> -> [c EXCEPT !.config_filename = value]
      [] key = <<"LIST_FN">> -> [c EXCEPT !.list_filename = value]
      [] key = <<"OPT_RECURSE">> -> [c EXCEPT !.recurse_enabled = (value # <<>>)]
      [] key = <<"RLOGIN">> -> [c EXCEPT !.rlogin = value]
      [] key = <<"RPATH_BASE">> -> [c EXCEPT !.rpath_base = value]
      [] key = <<"RPATH_TEMPLATE">> -> [c EXCEPT !.rpath_template = value]
      [] key = <<"LOCAL_DIR">> -> [c EXCEPT !.local_dir = value]
      [] key = <<"GM_DIR">> -> [c EXCEPT !.gm_dir = value]
      [] key = <<"REMOTE_DIR">> -> [c EXCEPT !.remote_dir = value]
      [] key = <<"GIT_ARGS">> -> [c EXCEPT !.git_args = value]
      [] key = <<"CONFIG_CMD">> -> [c EXCEPT !.config_cmd = value]
      [] key = <<"RECURSE_PREFIX">> -> [c EXCEPT !.recurse_prefix = value]
      [] key = <<"TREE_FILTER">> -> [c EXCEPT !.tree_filter = value]
      [] OTHER -> c

\* A call of set_from_string, as the cascade makes it; lastSet keeps the call
\* of the last step, if that step made one.
SetCall(source, key, value) ==
    /\ cfg' = set_from_string(cfg, key, value)
    /\ lastSet' = Some([source |-> source, key |-> key, value |-> value, before |-> cfg])

\* A test that lets a line of more than three cells pass
ConfigLineShapeError_AcceptsLong(cells) ==
    \/ Len(cells) < 3
    \/ cells[1] # <<>>
    \/ cells[2] = <<>>

\* load_from_file (config.rs 174-188): the Line is not `* KEY * VALUE`
ConfigLineShapeError(cells) ==
    \/ Len(cells) # 3
    \/ cells[1] # <<>>
    \/ cells[2] = <<>>

\* How load_from_file goes on after the iterator returned an error, with the
\* error dropped and the loading taken as finished
AfterParseError_Ignored == "env"

\* load_from_file (config.rs 169-172): the iterator returned an error
AfterParseError == "aborted"

\* One turn of the loop of load_from_file (config.rs 162-204), called by main
\* at main.rs 497-498; an Err is returned by main and ends the run.
LoadConfigLine ==
    /\ pc = "load_config"
    /\ LET r == IterNextFrom(content, position)
       IN  /\ position' = r.position
           /\ fileCfg' = IF r.kind = "none" THEN Some(cfg) ELSE fileCfg
           /\ CASE r.kind = "none" ->
                     /\ tstate' = "end"
                     /\ pc' = "env"
                     /\ lastSet' = None
                     /\ UNCHANGED <<lines, cfg>>
                [] r.kind = "err" ->
                     /\ tstate' = "error"
                     /\ pc' = AfterParseError
                     /\ lastSet' = None
                     /\ UNCHANGED <<lines, cfg>>
                [] r.kind = "overflow" ->
                     /\ tstate' = "overflow"
                     /\ pc' = "hung"
                     /\ lastSet' = None
                     /\ UNCHANGED <<lines, cfg>>
                [] r.kind = "line" ->
                     /\ lines' = Append(lines, r.cells)
                     /\ IF ConfigLineShapeError(r.cells)
                        THEN /\ tstate' = "dropped"
                             /\ pc' = "aborted"
                             /\ lastSet' = None
                             /\ UNCHANGED cfg
                        ELSE /\ tstate' = "reading"
                             /\ pc' = "load_config"
                             /\ SetCall("file", r.cells[2], r.cells[3])
    /\ UNCHANGED <<orig, content, parsed, decl, resolved, environ, todo, seen, child, sysVars>>
    /\ UNCHANGED <<mode, ops, config, lf, fs, fs0, run, idx, acts, out, rets, handed, virgin,
                   start, failed>>

\* The frame of the steps of main after load_from_file
CascadeFrame ==
    /\ UNCHANGED <<tokVars, parsed, decl, resolved, fileCfg, sysVars>>
    /\ UNCHANGED <<mode, ops, config, lf, fs, fs0, run, idx, acts, out, rets, handed, virgin,
                   start, failed>>

\* The values of GRM_RECURSE_PREFIX: empty (as the root process sees it), or a prefix
RecursePrefixes == { <<>>, <<"sub/">> }

\* The GRM_ variables an environment of the model can hold, without the GRM_
EnvKeys == { <<"CONFIG_CMD">>, <<"RLOGIN">>, <<"BOGUS">> }
EnvValues == { <<>>, <<"a">> }
RECURSE_PREFIX == <<"RECURSE_PREFIX">>

\* The environments (std::env::vars): each variable is unset or has a value
Environments ==
    { [k \in EnvKeys \cup {RECURSE_PREFIX} |->
          CASE k = RECURSE_PREFIX -> rp
            [] k = <<"CONFIG_CMD">> -> cc
            [] k = <<"RLOGIN">> -> rl
            [] k = <<"BOGUS">> -> bo] :
        rp \in {None} \cup { Some(x) : x \in RecursePrefixes },
        cc \in {None, Some(<<"a">>)},
        rl \in {None, Some(<<"a">>)},
        bo \in {None, Some(<<"a">>)} }

\* load_from_env (config.rs 115-124): recurse_prefix is taken from the
\* environment, and the loop over the variables begins
LoadFromEnvPrefix ==
    /\ pc = "env"
    /\ \E e \in Environments :
          /\ environ' = Some(e)
          /\ todo' = { k \in DOMAIN e : e[k] # None }
          /\ cfg' = [cfg EXCEPT !.recurse_prefix =
                         IF e[RECURSE_PREFIX] # None THEN e[RECURSE_PREFIX][1] ELSE <<>>]
    /\ lastSet' = None
    /\ pc' = "env_vars"
    /\ UNCHANGED <<seen, child>>
    /\ CascadeFrame

\* load_from_env (config.rs 126-144): the variables the root process accepts
AllowedFromEnv(c, key) ==
    \/ c.recurse_prefix # <<>>
    \/ key \in { <<"CONFIG_FILENAME">>, <<"LIST_FN">>, <<"CONFIG_CMD">> }

\* One turn of the loop of load_from_env (config.rs 126-144), the variables
\* coming in the order of the environment; the loop ends when none is left
SetFromEnv ==
    /\ pc = "env_vars"
    /\ IF todo = {}
       THEN /\ pc' = "ready"
            /\ lastSet' = None
            /\ UNCHANGED <<cfg, todo>>
       ELSE /\ \E key \in todo :
                 /\ todo' = todo \ {key}
                 /\ IF AllowedFromEnv(cfg, key) THEN SetCall("env", key, environ[1][key][1])
                    ELSE UNCHANGED cfg /\ lastSet' = None
            /\ pc' = "env_vars"
    /\ UNCHANGED <<environ, seen, child>>
    /\ CascadeFrame

\* The directory main was started in
StartDir == <<"/cwd">>

\* main (main.rs 502-524): the tree filter is stored and process_listfile begins
EnterListfile ==
    /\ pc = "ready"
    /\ cfg' = [cfg EXCEPT !.tree_filter = StartDir]
    /\ lastSet' = None
    /\ pc' = "listfile"
    /\ UNCHANGED <<environ, todo, seen, child>>
    /\ CascadeFrame

\* The inline settings a listfile of the model can hold
InlineKeys == { <<"RLOGIN">>, <<"BOGUS">> }

\* The lines of a listfile of the model
MaxListLines == 2

\* process_repo_line (main.rs 246-252): a Line `* KEY * VALUE` of the listfile
InlineConfigLine ==
    /\ pc = "listfile"
    /\ Len(seen) < MaxListLines
    /\ \E key \in InlineKeys, value \in EnvValues :
          /\ SetCall("listfile", key, value)
          /\ seen' = Append(seen, [kind |-> "inline", key |-> key, value |-> value,
                                   cfg |-> set_from_string(cfg, key, value)])
    /\ pc' = "listfile"
    /\ UNCHANGED <<environ, todo, child>>
    /\ CascadeFrame

\* process_repo_line (main.rs 256-257): a declaration is resolved by
\* process_repo_cells with the Config as it is when the line is taken
DeclarationLine ==
    /\ pc = "listfile"
    /\ Len(seen) < MaxListLines
    /\ seen' = Append(seen, [kind |-> "decl", key |-> <<>>, value |-> <<>>, cfg |-> cfg])
    /\ lastSet' = None
    /\ pc' = "listfile"
    /\ UNCHANGED <<cfg, environ, todo, child>>
    /\ CascadeFrame

\* all_values (config.rs 63-112) as the GRM_ variables of a child: three
\* settings are always passed, the others only when they are not empty
all_values(c) ==
    [k \in KnownKeys |->
        CASE k = <<"CONFIG_FILENAME">> -> Some(c.config_filename)
          [] k = <<"LIST_FN">> -> Some(c.list_filename)
          [] k = <<"OPT_RECURSE">> -> Some(IF c.recurse_enabled THEN <<"1">> ELSE <<>>)
          [] OTHER -> IF c[FieldOf(k)] # <<>> THEN Some(c[FieldOf(k)]) ELSE None]

\* The subdirectory with a listfile, relative to the parent's directory
SubDir == <<"sub/">>

\* recurse_to_subdirectory (recursive.rs 50-98): the child inherits the
\* environment e of the parent (Command::envs adds to it; no variable is
\* removed), with GRM_RECURSE_PREFIX extended and the values of the Config
ChildEnv(c, e) ==
    [k \in KnownKeys \cup DOMAIN e |->
        IF k = RECURSE_PREFIX THEN Some(c.recurse_prefix \o SubDir)
        ELSE IF k \in KnownKeys /\ all_values(c)[k] # None THEN all_values(c)[k]
        ELSE IF k \in DOMAIN e THEN e[k]
        ELSE None]

\* The loop of load_from_env (config.rs 126-144) over the variables in keys
RECURSIVE SetAllFromEnv(_, _, _)
SetAllFromEnv(c, e, keys) ==
    IF keys = {} THEN c
    ELSE LET k == CHOOSE k \in keys : TRUE
         IN  SetAllFromEnv(IF AllowedFromEnv(c, k) THEN set_from_string(c, k, e[k][1]) ELSE c,
                           e, keys \ {k})

\* load_from_env (config.rs 115-145) as a whole, on the environment e
load_from_env(c, e) ==
    LET prefix == IF e[RECURSE_PREFIX] # None THEN e[RECURSE_PREFIX][1] ELSE <<>>
    IN  SetAllFromEnv([c EXCEPT !.recurse_prefix = prefix], e,
                      { k \in DOMAIN e : e[k] # None })

\* main (main.rs 493-520) in the child: the child finds the config file of
\* the parent (find_conf_file walks up from the subdirectory), loads it, then
\* its environment, and takes its own directory as the tree filter
ChildConfig(e) ==
    [load_from_env(fileCfg[1], e) EXCEPT !.tree_filter = StartDir \o SubDir]

\* process_listfile (main.rs 202-210) and recurse_to_subdirectory: the scan of
\* the listfile is over and a child is spawned for a subdirectory
SpawnChild ==
    /\ pc = "listfile"
    /\ LET e == ChildEnv(cfg, environ[1])
       IN  child' = Some([env |-> e, cfg |-> ChildConfig(e)])
    /\ lastSet' = None
    /\ pc' = "recursed"
    /\ UNCHANGED <<cfg, environ, todo, seen>>
    /\ CascadeFrame

\* process_repo_line (main.rs 236-244): the first cell that is not empty
\* begins with '#'
IsCommentLine(cells) ==
    \E i \in 1..Len(cells) :
        /\ cells[i] # <<>>
        /\ cells[i][1] = HASH
        /\ \A j \in 1..(i - 1) : cells[j] = <<>>

\* One turn of the loop of process_listfile (main.rs 190-200) on the text of
\* the listfile, with process_repo_line (main.rs 230-258) on the Line: a
\* comment is skipped, a Line with an empty first cell is a configuration line
\* that sets a value if it has three cells or more, any other Line is a
\* declaration.  An error of the iterator ends the scan.
ScanListfileLine ==
    /\ pc = "scan"
    /\ LET r == IterNextFrom(content, position)
       IN  /\ position' = r.position
           /\ CASE r.kind = "none" ->
                     /\ tstate' = "end"
                     /\ pc' = "scanned"
                     /\ lastSet' = None
                     /\ UNCHANGED <<lines, cfg, seen>>
                [] r.kind = "err" ->
                     /\ tstate' = "error"
                     /\ pc' = "scan_error"
                     /\ lastSet' = None
                     /\ UNCHANGED <<lines, cfg, seen>>
                [] r.kind = "overflow" ->
                     /\ tstate' = "overflow"
                     /\ pc' = "scan_hung"
                     /\ lastSet' = None
                     /\ UNCHANGED <<lines, cfg, seen>>
                [] r.kind = "line" ->
                     /\ lines' = Append(lines, r.cells)
                     /\ tstate' = "reading"
                     /\ pc' = "scan"
                     /\ IF IsCommentLine(r.cells)
                        THEN /\ seen' = Append(seen, [kind |-> "comment", key |-> <<>>,
                                                      value |-> <<>>, cfg |-> cfg])
                             /\ lastSet' = None
                             /\ UNCHANGED cfg
                        ELSE IF r.cells[1] = <<>>
                        THEN IF Len(r.cells) >= 3
                             THEN /\ SetCall("listfile", r.cells[2], r.cells[3])
                                  /\ seen' = Append(seen,
                                        [kind |-> "inline", key |-> r.cells[2],
                                         value |-> r.cells[3],
                                         cfg |-> set_from_string(cfg, r.cells[2], r.cells[3])])
                             ELSE /\ seen' = Append(seen, [kind |-> "ignored", key |-> <<>>,
                                                           value |-> <<>>, cfg |-> cfg])
                                  /\ lastSet' = None
                                  /\ UNCHANGED cfg
                        ELSE /\ seen' = Append(seen, [kind |-> "decl", key |-> <<>>,
                                                      value |-> <<>>, cfg |-> cfg])
                             /\ lastSet' = None
                             /\ UNCHANGED cfg
    /\ UNCHANGED <<orig, content, parsed, decl, resolved, environ, todo, fileCfg, child,
                   sysVars>>
    /\ UNCHANGED <<mode, ops, config, lf, fs, fs0, run, idx, acts, out, rets, handed, virgin,
                   start, failed>>

(***************************************************************************)
(* One declaration: process_repo_cells (main.rs 267-333), the paths and    *)
(* the remote URL.  A path is a sequence of symbols: "/", "\", the suffix  *)
(* ".git", "://" and one-character names; a host or a scheme is one        *)
(* symbol.                                                                 *)
(***************************************************************************)
SLASH == "/"
DOT_GIT == ".git"
SCHEME_SEP == "://"

\* The regex ([^/]+?)(?:\.git)?$ of process_repo_cells (main.rs 271-276):
\* the leftmost match starts after the last '/', group 1 is lazy and takes at
\* least one symbol, and stops at the first place where the rest is empty or
\* is ".git"; no match (nothing after the last '/') gives the empty name.
repo_name(remote_rel) ==
    LET n == Len(remote_rel)
        slashes == { i \in 1..n : remote_rel[i] = SLASH }
        from == IF slashes = {} THEN 1
                ELSE (CHOOSE i \in slashes : \A k \in slashes : k <= i) + 1
        ends == { j \in from..n : SubSeq(remote_rel, j + 1, n) \in {<<>>, <<DOT_GIT>>} }
    IN  IF from > n THEN <<>>
        ELSE SubSeq(remote_rel, from, CHOOSE j \in ends : \A k \in ends : j <= k)

\* main.rs 278-283
local_rel(cells) ==
    IF Len(cells) > 1 /\ cells[2] # <<>> THEN cells[2] ELSE repo_name(cells[1])

\* main.rs 285-290
media_rel(cells) ==
    IF Len(cells) > 2 /\ cells[3] # <<>> THEN cells[3] ELSE local_rel(cells)

\* main.rs 429-439
get_remote_repo_path(c, repo_path) ==
    IF c.remote_dir # <<>>
    THEN IF repo_path # <<>> THEN c.remote_dir \o <<SLASH>> \o repo_path ELSE c.remote_dir
    ELSE repo_path

\* main.rs 441-451
get_media_repo_path(c, repo_path) ==
    IF c.gm_dir # <<>>
    THEN IF repo_path # <<>> THEN c.gm_dir \o <<SLASH>> \o repo_path ELSE c.gm_dir
    ELSE repo_path

\* main.rs 453-463
get_local_repo_path(c, repo_path) ==
    IF c.local_dir # <<>>
    THEN IF repo_path # <<>> THEN c.local_dir \o <<SLASH>> \o repo_path ELSE c.local_dir
    ELSE repo_path

\* str::replace('\\', "/") (main.rs 311-312)
ReplaceBackslash(s) == [i \in 1..Len(s) |-> IF s[i] = BACKSLASH THEN SLASH ELSE s[i]]

\* Path::join (main.rs 310): an absolute path replaces the directory
PathJoin(dir, p) ==
    IF p # <<>> /\ p[1] = SLASH THEN p
    ELSE IF dir # <<>> /\ dir[Len(dir)] = SLASH THEN dir \o p
    ELSE dir \o <<SLASH>> \o p

\* str::contains
Contains(s, sub) ==
    \E i \in 0..(Len(s) - Len(sub)) : SubSeq(s, i + 1, i + Len(sub)) = sub

\* A test the tree filter is not: the filter as a prefix of the path
InTreeFilter_PrefixOnly(c, cwd, local_path) ==
    \/ c.tree_filter = <<>>
    \/ LET abs == ReplaceBackslash(PathJoin(cwd, local_path))
           filter == ReplaceBackslash(c.tree_filter)
       IN  Len(filter) <= Len(abs) /\ SubSeq(abs, 1, Len(filter)) = filter

\* The tree filter of process_repo_cells (main.rs 305-321)
InTreeFilter(c, cwd, local_path) ==
    \/ c.tree_filter = <<>>
    \/ Contains(ReplaceBackslash(PathJoin(cwd, local_path)), ReplaceBackslash(c.tree_filter))

\* unescape_backslashes (remote_url.rs 15-31)
RECURSIVE unescape_backslashes(_)
unescape_backslashes(s) ==
    IF s = <<>> THEN <<>>
    ELSE IF s[1] = BACKSLASH /\ Len(s) > 1
         THEN <<s[2]>> \o unescape_backslashes(SubSeq(s, 3, Len(s)))
         ELSE <<s[1]>> \o unescape_backslashes(Tail(s))

\* str::trim_start_matches, str::trim_end_matches, str::trim_matches
RECURSIVE trim_start_matches(_, _)
trim_start_matches(s, ch) ==
    IF s # <<>> /\ s[1] = ch THEN trim_start_matches(Tail(s), ch) ELSE s

RECURSIVE trim_end_matches(_, _)
trim_end_matches(s, ch) ==
    IF s # <<>> /\ s[Len(s)] = ch THEN trim_end_matches(SubSeq(s, 1, Len(s) - 1), ch) ELSE s

trim_matches(s, ch) == trim_end_matches(trim_start_matches(s, ch), ch)

\* build_remote_url (remote_url.rs 77-122).  The http/https branch formats the
\* parsed scheme://host, which for a bare host is that text again, with the
\* same path as the default branch.
build_remote_url(rlogin, remote_dir, repo_path) ==
    IF rlogin # <<>>
    THEN LET login == trim_end_matches(rlogin, SLASH)
             seps == { i \in 1..Len(login) : login[i] = SCHEME_SEP }
         IN  IF seps # {}
             THEN LET at == CHOOSE i \in seps : \A k \in seps : i <= k
                      protocol == SubSeq(login, 1, at - 1)
                      domain == trim_end_matches(SubSeq(login, at + 1, Len(login)), SLASH)
                  IN  protocol \o <<SCHEME_SEP>> \o domain \o <<SLASH>>
                        \o trim_matches(remote_dir, SLASH) \o <<SLASH>>
                        \o trim_start_matches(repo_path, SLASH)
             ELSE login \o <<":">>
                    \o trim_matches(unescape_backslashes(remote_dir), SLASH) \o <<SLASH>>
                    \o trim_start_matches(unescape_backslashes(repo_path), SLASH)
    ELSE trim_end_matches(unescape_backslashes(remote_dir), SLASH) \o <<SLASH>>
           \o trim_start_matches(unescape_backslashes(repo_path), SLASH)

\* get_remote_url (main.rs 465-481)
get_remote_url(c, remote_rel_path) ==
    build_remote_url(c.rlogin, c.rpath_base, get_remote_repo_path(c, remote_rel_path))

\* create_new (repository.rs 160-167): the host ssh is run on and the login the
\* origin URL starts with; any RLOGIN that is neither empty nor ssh://... is
\* an error
ssh_login(c) ==
    IF c.rlogin = <<>>
    THEN [ok |-> TRUE, ssh_host |-> <<"localhost">>,
          effective_login |-> <<"ssh", SCHEME_SEP, "localhost">>]
    ELSE IF Len(c.rlogin) >= 2 /\ SubSeq(c.rlogin, 1, 2) = <<"ssh", SCHEME_SEP>>
         THEN [ok |-> TRUE, ssh_host |-> SubSeq(c.rlogin, 3, Len(c.rlogin)),
               effective_login |-> c.rlogin]
         ELSE [ok |-> FALSE, ssh_host |-> <<>>, effective_login |-> <<>>]

\* create_new (repository.rs 172-176): the path of the remote repository
grm_rpath(c, remote_path) ==
    LET p == c.rpath_base \o <<SLASH>> \o remote_path
    IN  IF p[Len(p)] = DOT_GIT THEN p ELSE p \o <<DOT_GIT>>

\* create_new (repository.rs 213-214): the URL given to add_git_remote
git_remote(c, remote_path) == ssh_login(c).effective_login \o grm_rpath(c, remote_path)

ResolveFrame == UNCHANGED <<engineVars, tokVars, parsed, cfg, lastSet, decl, procVars, sysVars>>

\* process_repo_cells (main.rs 267-333) on the declaration decl, read in the
\* directory decl.cwd: the three relative paths, the local and media paths,
\* and whether process_repo is called
ProcessRepoCells ==
    /\ decl # None
    /\ resolved = None
    /\ LET cells == decl[1].cells
           local_path == get_local_repo_path(cfg, local_rel(cells))
       IN  resolved' = Some([remote_rel |-> cells[1],
                             local_rel |-> local_rel(cells),
                             media_rel |-> media_rel(cells),
                             local_path |-> local_path,
                             media_path |-> get_media_repo_path(cfg, media_rel(cells)),
                             engine |-> InTreeFilter(cfg, decl[1].cwd, local_path),
                             remote_path |-> None,
                             url |-> None,
                             created |-> None])
    /\ ResolveFrame

\* process_repo asks for the URL of the declaration it was given
\* (main.rs 79, 113, 146)
GetRemoteUrl ==
    /\ resolved # None
    /\ resolved[1].engine
    /\ resolved[1].url = None
    /\ resolved' = Some([resolved[1] EXCEPT
                            !.remote_path = Some(get_remote_repo_path(cfg, resolved[1].remote_rel)),
                            !.url = Some(get_remote_url(cfg, resolved[1].remote_rel))])
    /\ ResolveFrame

\* process_repo calls create_new with the remote cell of the declaration
\* (main.rs 174): the remote repository it creates and the origin it wires
\* (repository.rs 143-217), or the error for a login ssh cannot be run on
CreateNewRemote ==
    /\ resolved # None
    /\ resolved[1].engine
    /\ resolved[1].created = None
    /\ resolved' = Some([resolved[1] EXCEPT
                            !.created =
                               IF ssh_login(cfg).ok
                               THEN Some([ok |-> TRUE,
                                          grm_rpath |-> grm_rpath(cfg, resolved[1].remote_rel),
                                          origin |-> git_remote(cfg, resolved[1].remote_rel)])
                               ELSE Some([ok |-> FALSE, grm_rpath |-> <<>>, origin |-> <<>>])])
    /\ ResolveFrame

(***************************************************************************)
(* Specifications.                                                         *)
(***************************************************************************)
TokIdle ==
    /\ orig = <<>>
    /\ content = <<>>
    /\ position = 0
    /\ lines = <<>>
    /\ tstate = "idle"

\* Config::new (config.rs 42-58): every setting of the Config, as loaded text
Config_new ==
    [config_filename |-> <<".grm.conf">>, list_filename |-> <<>>, recurse_enabled |-> TRUE,
     rlogin |-> <<>>, rpath_base |-> <<>>, rpath_template |-> <<>>, local_dir |-> <<>>,
     gm_dir |-> <<>>, remote_dir |-> <<>>, git_args |-> <<>>, config_cmd |-> <<>>,
     recurse_prefix |-> <<>>, tree_filter |-> <<>>]

PureIdle ==
    /\ parsed = None
    /\ cfg = Config_new
    /\ lastSet = None
    /\ decl = None
    /\ resolved = None

\* No directory walk, command line or external command is part of the run
SysIdle ==
    /\ tree = <<>>
    /\ stack = <<>>
    /\ spawns = <<>>
    /\ argv = <<>>
    /\ invoked = None

ProcIdle ==
    /\ environ = None
    /\ todo = {}
    /\ fileCfg = None
    /\ seen = <<>>
    /\ child = None
    /\ SysIdle

EngineIdle ==
    /\ mode = "configure"
    /\ ops = OperationsFrom("configure")
    /\ config = ConfigNew
    /\ lf = <<>>
    /\ fs = <<>>
    /\ fs0 = <<>>
    /\ run = "first"
    /\ idx = 0
    /\ pc = "done"
    /\ acts = <<>>
    /\ out = <<>>
    /\ rets = <<>>
    /\ handed = <<>>
    /\ virgin = FALSE
    /\ start = [state |-> "Missing", origin |-> NoOrigin]
    /\ failed = {}

\* The engine: main (main.rs 483-532) has built the Config and the Operations
\* and is about to call process_listfile.
Init ==
    /\ mode \in PrimaryModes
    /\ ops = OperationsFrom(mode)
    /\ config \in ConfigsFor(mode)
    /\ lf \in Listfiles
    /\ fs \in [1..Len(lf) -> PathStates]
    /\ fs0 = fs
    /\ run = "first"
    /\ idx = 0
    /\ pc = "loop"
    /\ acts = <<>>
    /\ out = <<>>
    /\ rets = <<>>
    /\ handed = <<>>
    /\ virgin = FALSE
    /\ start = [state |-> "Missing", origin |-> NoOrigin]
    /\ failed = {}
    /\ TokIdle
    /\ PureIdle
    /\ ProcIdle

Next ==
    \/ ProcessRepoLine
    \/ EndOfListfile
    \/ Rerun
    \/ IsDirRepoRoot
    \/ CloneRepoNoCheckout
    \/ ExecuteConfigCmd
    \/ CheckOut
    \/ SetRemoteSetUrl
    \/ SetRemoteAdd
    \/ RunGitCommand
    \/ CreateNew
    \/ SshCreate
    \/ InitGitRepository
    \/ AddGitRemote
    \/ CheckoutMaster

Spec == Init /\ [][Next]_vars

(***************************************************************************)
(* Vocabulary of the properties of the engine.                             *)
(***************************************************************************)
\* The kinds of the external calls logged for the current declaration, in order
Kinds(a) == [k \in 1..Len(a) |-> a[k].kind]

ActOk(a) == a.spawned /\ a.code = 0

AllSucceeded(a) == \A k \in 1..Len(a) : ActOk(a[k])

\* The current declaration was handed to process_repo
CurHanded == idx >= 1 /\ handed # <<>> /\ handed[Len(handed)] = idx

\* process_repo has returned for the current declaration
Finished == pc \in {"loop", "done"}

\* What a listing mode prints for a declaration
PrintOf(m) ==
    CASE m = "list-rrel" -> "print rrel"
      [] m = "list-lrel" -> "print lrel"
      [] m = "list-rurl" -> "print rurl"

\* External calls that create the local repository, wire its origin, need it
CreatingKinds == {"clone", "git_init"}
WiringKinds == {"clone", "set_url", "remote_add", "add_git_remote"}
CheckoutKinds == {"checkout", "checkout_master"}
NeedsRepoKinds == {"configure", "set_url", "remote_add", "add_git_remote"} \cup CheckoutKinds

\* The declarations among the first n that pass the tree filter, in listfile order
RECURSIVE PassingUpTo(_)
PassingUpTo(n) ==
    IF n = 0 THEN <<>>
    ELSE IF PassesTreeFilter(n) THEN Append(PassingUpTo(n - 1), n)
    ELSE PassingUpTo(n - 1)

\* The current declaration is a clone-mode run on a missing path that has
\* returned with every external call successful.
CloneCase ==
    /\ Finished
    /\ CurHanded
    /\ start.state = "Missing"
    /\ ops.clone /\ ~ops.new /\ ~is_listing_mode(mode)
    /\ acts # <<>>
    /\ AllSucceeded(acts)

(***************************************************************************)
(* C1                                                                      *)
(***************************************************************************)
\* C1 as stated: a missing path under a clone mode, every external call
\* successful, gets exactly clone (of the declaration's remote URL), configure,
\* checkout, in that order.
C1_AsStated ==
    CloneCase =>
        /\ Kinds(acts) = <<"clone", "configure", "checkout">>
        /\ acts[1].url = RemoteUrl(idx)

\* C1, amended: the external calls are exactly clone (of the declaration's
\* remote URL), configure, checkout when CONFIG_CMD is set and not empty, and
\* exactly clone, checkout when it is unset or empty; nothing else is run and
\* the path is a repository with that origin afterwards.
C1_CloneSequence ==
    CloneCase =>
        /\ Kinds(acts) = IF HasConfigCmd THEN <<"clone", "configure", "checkout">>
                                          ELSE <<"clone", "checkout">>
        /\ acts[1].url = RemoteUrl(idx)
        /\ fs[idx] = [state |-> "Repo", origin |-> RemoteUrl(idx)]
        /\ idx \notin failed

C1_Witness ==
    /\ CloneCase
    /\ HasConfigCmd
    /\ Kinds(acts) = <<"clone", "configure", "checkout">>

(***************************************************************************)
(* C2                                                                      *)
(***************************************************************************)
\* C2: under the modes configure, set-remote, git and new a missing path gets
\* the "does not exist" error and nothing else: process_repo returns at once,
\* no external call is made, and the path stays missing.
C2_MissingWithoutClone ==
    mode \in {"configure", "set-remote", "git", "new"} =>
        /\ \A i \in 1..Len(lf) : fs0[i].state = "Missing" => fs[i] = fs0[i]
        /\ (CurHanded /\ start.state = "Missing") =>
              /\ Finished
              /\ acts = <<>>
              /\ rets = <<>>
              /\ out = <<"ERROR does not exist">>
              /\ fs[idx] = start

C2_Witness ==
    /\ mode = "set-remote"
    /\ CurHanded
    /\ start.state = "Missing"
    /\ out = <<"ERROR does not exist">>
    /\ pc = "done"

(***************************************************************************)
(* C3                                                                      *)
(***************************************************************************)
\* C3: under a listing mode every declaration handed to process_repo prints
\* exactly one representation, the one of the mode, and process_repo returns;
\* no external call is ever made and no path changes, whatever its state.
C3_ListingOnlyPrints ==
    is_listing_mode(mode) =>
        /\ Finished
        /\ acts = <<>>
        /\ rets = <<>>
        /\ fs = fs0
        /\ failed = {}
        /\ CurHanded => out = <<PrintOf(mode)>>

C3_Witness ==
    /\ mode = "list-rurl"
    /\ CurHanded
    /\ start.state = "Missing"
    /\ out = <<"print rurl">>

(***************************************************************************)
(* C4                                                                      *)
(***************************************************************************)
\* C4 as stated: a path that is a file gets the "not a directory" error and no
\* external call, under every mode, the listing modes included.
C4_AsStated ==
    (CurHanded /\ start.state = "File") =>
        /\ out = <<"ERROR is not a directory">>
        /\ acts = <<>>

\* C4, amended: a path that is a file gets no external call under any mode and
\* stays a file; under every mode that is not a listing mode process_repo
\* reports "not a directory" and returns, under a listing mode it prints the
\* representation of the declaration instead.
C4_FileIsRejected ==
    (CurHanded /\ start.state = "File") =>
        /\ Finished
        /\ acts = <<>>
        /\ rets = <<>>
        /\ fs[idx] = start
        /\ out = IF is_listing_mode(mode) THEN <<PrintOf(mode)>>
                                          ELSE <<"ERROR is not a directory">>

C4_Witness ==
    /\ mode = "new"
    /\ CurHanded
    /\ start.state = "File"
    /\ out = <<"ERROR is not a directory">>

(***************************************************************************)
(* C5                                                                      *)
(***************************************************************************)
\* The current declaration was found a repository under a mode that asks for
\* both configure and set-remote.
C5_Case == CurHanded /\ start.state = "Repo" /\ ops.configure /\ ops.set_remote

SetRemoteKinds == {"set_url", "remote_add"}

\* C5 as stated: on an existing repository, with configure and set-remote both
\* requested, the configure command is invoked before the origin is updated.
C5_AsStated ==
    C5_Case =>
        \A i, j \in 1..Len(acts) :
            (acts[i].kind = "configure" /\ acts[j].kind \in SetRemoteKinds) => i < j

\* C5, amended: on an existing repository, with configure and set-remote both
\* requested, the origin is updated before the configure command is invoked:
\* no set-url or remote add follows a configure, and configure_repo is not
\* called before set_remote has returned.
C5_SetRemoteBeforeConfigure ==
    C5_Case =>
        /\ \A i, j \in 1..Len(acts) :
              (acts[i].kind = "configure" /\ acts[j].kind \in SetRemoteKinds) => j < i
        /\ \A i, j \in 1..Len(rets) :
              (rets[i].fn = "configure_repo" /\ rets[j].fn = "set_remote") => j < i
        /\ pc = "configure" => \E j \in 1..Len(rets) : rets[j] = Ret("set_remote", TRUE)
        /\ pc \in {"set_url", "remote_add"} =>
              \A i \in 1..Len(rets) : rets[i].fn # "configure_repo"

C5_Witness ==
    /\ C5_Case
    /\ Finished
    /\ Kinds(acts) = <<"rev_parse", "set_url", "configure">>
    /\ AllSucceeded(acts)

(***************************************************************************)
(* C6                                                                      *)
(***************************************************************************)
\* C6: among the external calls made for one declaration, no configure,
\* set-remote or checkout comes before the clone or git init that creates the
\* repository (each of them finds the repository already there or follows a
\* successful clone or git init), and every checkout follows a successful
\* clone, remote add or set-url that wired origin.
C6_CreateBeforeUse ==
    \A i \in 1..Len(acts) :
        /\ acts[i].kind \in NeedsRepoKinds =>
              \/ start.state = "Repo"
              \/ \E j \in 1..(i - 1) : acts[j].kind \in CreatingKinds /\ ActOk(acts[j])
        /\ acts[i].kind \in CreatingKinds =>
              \A j \in 1..(i - 1) : acts[j].kind \notin NeedsRepoKinds
        /\ acts[i].kind \in CheckoutKinds =>
              \E j \in 1..(i - 1) : acts[j].kind \in WiringKinds /\ ActOk(acts[j])

C6_Witness ==
    /\ Finished
    /\ start.state = "Directory"
    /\ Kinds(acts) = <<"rev_parse", "ssh_create", "git_init", "configure", "add_git_remote",
                       "checkout_master">>
    /\ \A i \in 2..Len(acts) : ActOk(acts[i])

(***************************************************************************)
(* C7                                                                      *)
(***************************************************************************)
\* C7: set_remote runs `remote add origin` exactly when set-url exited with 2;
\* it returns Ok exactly when set-url exited with 0, or set-url exited with 2
\* and the add succeeded; after any other failure of set-url it returns Err
\* without an add, and process_repo fails there.
C7_SetRemoteFallback ==
    \A i \in 1..Len(acts) :
        /\ acts[i].kind = "remote_add" =>
              /\ i > 1
              /\ acts[i - 1].kind = "set_url"
              /\ acts[i - 1].spawned
              /\ acts[i - 1].code = NoSuchRemote
        /\ acts[i].kind = "set_url" =>
              LET su == acts[i]
                  added == i < Len(acts) /\ acts[i + 1].kind = "remote_add"
                  pending == i = Len(acts) /\ pc = "remote_add"
                  expected == \/ su.spawned /\ su.code = 0
                              \/ su.spawned /\ su.code = NoSuchRemote /\ added
                                            /\ ActOk(acts[i + 1])
                  returned == { k \in 1..Len(rets) : rets[k].fn = "set_remote" }
              IN  /\ (su.spawned /\ su.code = NoSuchRemote) <=> (added \/ pending)
                  /\ pending => returned = {}
                  /\ ~pending =>
                        /\ Cardinality(returned) = 1
                        /\ \A k \in returned : rets[k].ok = expected
                        /\ ~expected => Finished /\ idx \in failed

C7_Witness ==
    /\ Len(acts) >= 3
    /\ acts[2].kind = "set_url" /\ acts[2].code = NoSuchRemote /\ acts[2].spawned
    /\ acts[3].kind = "remote_add" /\ ActOk(acts[3])
    /\ \E k \in 1..Len(rets) : rets[k] = Ret("set_remote", TRUE)

(***************************************************************************)
(* C8                                                                      *)
(***************************************************************************)
\* C8: the declarations handed to process_repo so far are exactly those among
\* the first idx that pass the tree filter, each once, in listfile order; a
\* failure does not end the run, which ends only when every declaration of the
\* listfile has been taken, so that at the end all the passing ones were handed.
C8_EveryDeclarationHandedOnce ==
    /\ handed = PassingUpTo(idx)
    /\ failed \subseteq { handed[k] : k \in 1..Len(handed) }
    /\ pc = "done" => idx = Len(lf) /\ handed = PassingUpTo(Len(lf))

C8_Witness ==
    /\ pc = "done"
    /\ Len(lf) = 2
    /\ handed = <<1, 2>>
    /\ 1 \in failed

(***************************************************************************)
(* C9                                                                      *)
(***************************************************************************)
\* C9: a declaration found a repository gets none of clone, git init, remote
\* repository creation, checkout or hard reset, under every mode: only
\* set-remote, configure and the git command, and it stays a repository.  In a
\* second run of the same command, a path the first run brought to Repo gets
\* its set-remote by the set-url branch (no remote add, no exit status 2) with
\* the URL origin already has.
C9_RepoIsNeverRecreated ==
    (CurHanded /\ start.state = "Repo") =>
        /\ \A i \in 1..Len(acts) :
              acts[i].kind \in {"rev_parse", "set_url", "remote_add", "configure", "run_git"}
        /\ fs[idx].state = "Repo"
        /\ (run = "second" /\ fs0[idx].state # "Repo") =>
              /\ \A i \in 1..Len(acts) :
                    /\ acts[i].kind # "remote_add"
                    /\ acts[i].kind = "set_url" =>
                          /\ acts[i].spawned => acts[i].code # NoSuchRemote
                          /\ acts[i].url = RemoteUrl(idx)
              /\ (ops.set_remote /\ Len(acts) <= 1) => start.origin = RemoteUrl(idx)
              /\ pc # "remote_add"

C9_Witness ==
    /\ run = "second"
    /\ CurHanded
    /\ fs0[idx].state = "Missing"
    /\ start = [state |-> "Repo", origin |-> RemoteUrl(idx)]
    /\ Finished
    /\ Kinds(acts) = <<"rev_parse", "set_url", "configure">>
    /\ AllSucceeded(acts)


\* The round trip of one cell: a writer escapes orig, the tokenizer reads it.
RoundTripAlphabet == {LIST_SEPARATOR, BACKSLASH, HASH, " ", LF, "a"}

RECURSIVE StringsUpTo(_, _)
StringsUpTo(alphabet, n) ==
    IF n = 0 THEN {<<>>}
    ELSE LET shorter == StringsUpTo(alphabet, n - 1)
         IN  shorter \cup { Append(s, c) : s \in shorter, c \in alphabet }

\* The writer of the round trip: a backslash in front of every separator,
\* backslash, comment marker and whitespace character.
RECURSIVE Escape(_)
Escape(s) ==
    IF s = <<>> THEN <<>>
    ELSE (IF s[1] \in {LIST_SEPARATOR, BACKSLASH, HASH} \/ IsWhitespace(s[1])
          THEN <<BACKSLASH, s[1]>> ELSE <<s[1]>>) \o Escape(Tail(s))

InitRoundTrip ==
    /\ orig \in StringsUpTo(RoundTripAlphabet, MaxLen) \ {<<>>}
    /\ content = Escape(orig)
    /\ position = 0
    /\ lines = <<>>
    /\ tstate = "reading"
    /\ EngineIdle
    /\ PureIdle
    /\ ProcIdle

NextTok == IterNext

SpecRoundTrip == InitRoundTrip /\ [][NextTok]_vars

(***************************************************************************)
(* C10                                                                     *)
(***************************************************************************)
\* The consumer has stopped reading the escaped line.
RoundTripDone == tstate # "reading"

\* C10: a non-empty string, escaped and tokenized as one line, comes back as
\* exactly one Line whose single cell is the string; the iterator then ends.
C10_RoundTrip ==
    RoundTripDone => tstate = "end" /\ lines = << <<orig>> >>

\* The part of C10 the tokenizer keeps: the round trip of every string that does
\* not begin with the comment marker.
C10_RoundTripWithoutLeadingHash ==
    (RoundTripDone /\ orig[1] # HASH) => tstate = "end" /\ lines = << <<orig>> >>

\* An escaped separator inside a cell: a\*c comes back as the one cell a*c.
C10_EscapedSeparatorRead ==
    /\ orig = <<"a", LIST_SEPARATOR, "a">>
    /\ tstate = "end"
    /\ lines = << <<orig>> >>

\* A string beginning with an escaped comment marker is taken for a comment:
\* no Line is yielded and the iterator does not advance.
C10_LeadingHashLost ==
    /\ orig = <<HASH, "a">>
    /\ content = <<BACKSLASH, HASH, "a">>
    /\ tstate = "overflow"
    /\ lines = <<>>

(***************************************************************************)
(* The tokenizer on raw text: every text over the alphabet up to MaxText   *)
(* characters is read through the iterator, or given to parse_config_cell. *)
(***************************************************************************)
MaxText == 4

TokAlphabet == {LIST_SEPARATOR, BACKSLASH, HASH, " ", LF, CR, "a"}

InitTok ==
    /\ content \in StringsUpTo(TokAlphabet, MaxText)
    /\ orig = content
    /\ position = 0
    /\ lines = <<>>
    /\ tstate = "reading"
    /\ EngineIdle
    /\ PureIdle
    /\ ProcIdle

NextRawTok ==
    \/ IterNext
    \/ ParseCell

SpecTok == InitTok /\ [][NextRawTok]_vars

\* The field at the head of a text, as the grammar describes it: its
\* characters up to the first unescaped CR, LF or separator, each marked as
\* escaped or not.  A backslash with nothing after it is marked dangling.
RECURSIVE FieldItems(_)
FieldItems(s) ==
    IF s = <<>> \/ s[1] \in {CR, LF, LIST_SEPARATOR} THEN <<>>
    ELSE IF s[1] = BACKSLASH
         THEN IF Len(s) = 1 THEN << [ch |-> BACKSLASH, esc |-> FALSE, dangling |-> TRUE] >>
              ELSE << [ch |-> s[2], esc |-> TRUE, dangling |-> FALSE] >>
                       \o FieldItems(Drop(s, 2))
    ELSE << [ch |-> s[1], esc |-> FALSE, dangling |-> FALSE] >> \o FieldItems(Tail(s))

\* Without the leading characters that are whitespace other than CR and LF
RECURSIVE DropLeadingBlanks(_)
DropLeadingBlanks(s) ==
    IF s # <<>> /\ IsWhitespace(s[1]) /\ s[1] \notin {CR, LF} THEN DropLeadingBlanks(Tail(s))
    ELSE s

\* Without the trailing items that are unescaped whitespace
RECURSIVE DropTrailingBlanks(_)
DropTrailingBlanks(items) ==
    IF items # <<>> /\ ~items[Len(items)].esc /\ IsWhitespace(items[Len(items)].ch)
    THEN DropTrailingBlanks(SubSeq(items, 1, Len(items) - 1))
    ELSE items

ItemChars(items) == [k \in 1..Len(items) |-> items[k].ch]

HasDangling(items) == \E k \in 1..Len(items) : items[k].dangling

\* The cell the grammar gives for the field at the head of text s
TrimmedField(s) == ItemChars(DropTrailingBlanks(FieldItems(DropLeadingBlanks(s))))

(***************************************************************************)
(* C11                                                                     *)
(***************************************************************************)
\* C11: the cell parse_config_cell returns is the escape-decoded field without
\* its unescaped leading whitespace (other than CR, LF) and without its
\* unescaped trailing whitespace: it ends at the last character that is
\* escaped or not whitespace; interior whitespace and escaped characters stay.
C11_TrimsOnlyUnescaped ==
    (parsed # None /\ parsed[1].ok) =>
        /\ parsed[1].cell = TrimmedField(content)
        /\ ~HasDangling(FieldItems(DropLeadingBlanks(content)))

C11_Witness ==
    /\ parsed # None
    /\ content = <<" ", BACKSLASH, " ", " ">>
    /\ parsed[1].ok
    /\ parsed[1].cell = <<" ">>

(***************************************************************************)
(* Vocabulary of the properties of the iterator.                           *)
(***************************************************************************)
\* The consumer has read the text to its end, to an error, or to the call
\* of next that does not return.
ReadingDone == tstate \in {"end", "error", "overflow"}

\* A whole text read through the iterator: the Lines and how the reading ended.
RECURSIVE ReadFrom(_, _, _)
ReadFrom(text, pos, acc) ==
    LET r == IterNextFrom(text, pos)
    IN  CASE r.kind = "line" -> ReadFrom(text, r.position, Append(acc, r.cells))
          [] r.kind = "none" -> [lines |-> acc, tstate |-> "end"]
          [] r.kind = "err" -> [lines |-> acc, tstate |-> "error"]
          [] r.kind = "overflow" -> [lines |-> acc, tstate |-> "overflow"]

ReadAll(text) == ReadFrom(text, 0, <<>>)

\* What the consumer has got from content
ReadSoFar == [lines |-> lines, tstate |-> tstate]

\* The first physical line of a text, without its terminator, and the text
\* after that terminator (CR, LF or CRLF).
RECURSIVE FirstLine(_)
FirstLine(s) == IF s = <<>> \/ s[1] \in {CR, LF} THEN <<>> ELSE <<s[1]>> \o FirstLine(Tail(s))

AfterFirstLine(s) == ConsumeLineEnding(Drop(s, Len(FirstLine(s))))

\* The first physical line is a comment: '#' after the leading whitespace
\* (and no backslash in it, so that its end is not in question).
FirstLineIsComment(s) ==
    /\ StartsWith(DropLeadingBlanks(FirstLine(s)), HASH)
    /\ \A k \in 1..Len(FirstLine(s)) : FirstLine(s)[k] # BACKSLASH

\* The first physical line is empty or whitespace only.
FirstLineIsBlank(s) == s # <<>> /\ DropLeadingBlanks(FirstLine(s)) = <<>>

(***************************************************************************)
(* C13                                                                     *)
(***************************************************************************)
\* C13: a text whose first physical line is a comment is read as the text
\* after that line is: the comment yields no Line and is consumed with its
\* terminator, and the Lines that follow are those of the rest of the text.
C13_CommentLineConsumed ==
    (ReadingDone /\ FirstLineIsComment(content)) =>
        ReadSoFar = ReadAll(AfterFirstLine(content))

\* The comment line # followed by the line a: next never returns.
C13_CommentLineHangs ==
    /\ content = <<HASH, LF, "a">>
    /\ tstate = "overflow"
    /\ lines = <<>>
    /\ position = 0
    /\ ReadAll(AfterFirstLine(content)) = [lines |-> << <<<<"a">>>> >>, tstate |-> "end"]

(***************************************************************************)
(* C14                                                                     *)
(***************************************************************************)
\* C14: a physical line that is empty or whitespace only produces no Line: a
\* text beginning with such a line is read as the text after it is, and no
\* Line that is the single empty cell is ever yielded.
C14_BlankLineSkipped ==
    /\ \A k \in 1..Len(lines) : lines[k] # << <<>> >>
    /\ (ReadingDone /\ FirstLineIsBlank(content)) =>
          ReadSoFar = ReadAll(AfterFirstLine(content))

\* The empty line followed by the line a: two Lines, the first the empty cell.
C14_BlankLineYielded ==
    /\ content = <<LF, "a">>
    /\ tstate = "end"
    /\ lines = << << <<>> >>, << <<"a">> >> >>

(***************************************************************************)
(* C15                                                                     *)
(***************************************************************************)
LineEndings == { <<LF>>, <<CR>>, <<CR, LF>> }

\* A text with each of its line terminators (CRLF, CR, LF) written as ending
RECURSIVE WithEnding(_, _)
WithEnding(s, ending) ==
    IF s = <<>> THEN <<>>
    ELSE IF s[1] = CR
         THEN ending \o WithEnding(IF StartsWith(Tail(s), LF) THEN Drop(s, 2) ELSE Tail(s),
                                   ending)
    ELSE IF s[1] = LF THEN ending \o WithEnding(Tail(s), ending)
    ELSE <<s[1]>> \o WithEnding(Tail(s), ending)

\* Every CR and LF of the text is a line terminator: none follows a backslash.
EndingsUnescaped(s) ==
    \A k \in 2..Len(s) : s[k] \in {CR, LF} => s[k - 1] # BACKSLASH

\* The last physical line has no terminator (and no backslash at its end).
LastLineOpen(s) == s # <<>> /\ s[Len(s)] \notin {CR, LF, BACKSLASH}

\* C15: a text is read to the same Lines, and the reading ends the same way,
\* whether its line terminators are written as LF, as CR or as CRLF; a CRLF
\* pair gives no Line of its own; and a last line without terminator is read
\* as the same line with one.
C15_LineEndingsEquivalent ==
    (ReadingDone /\ EndingsUnescaped(content)) =>
        \A ending \in LineEndings :
            /\ ReadAll(WithEnding(content, ending)) = ReadSoFar
            /\ LastLineOpen(content) => ReadAll(content \o ending) = ReadSoFar

C15_Witness ==
    /\ content = <<"a", CR, LF, "a">>
    /\ tstate = "end"
    /\ lines = << << <<"a">> >>, << <<"a">> >> >>
    /\ WithEnding(content, <<LF>>) = <<"a", LF, "a">>

(***************************************************************************)
(* The cascade: main loads the config file, reads the environment and      *)
(* enters the listfile.  The config file is up to MaxConfigLines lines.    *)
(***************************************************************************)
MaxConfigLines == 2

\* The lines a config file of the model is made of
ConfigFileLines ==
    { <<LIST_SEPARATOR, "RLOGIN", LIST_SEPARATOR, "a">>,
      <<LIST_SEPARATOR, "BOGUS", LIST_SEPARATOR, "a">>,
      <<LIST_SEPARATOR, "CONFIG_CMD", LIST_SEPARATOR>>,
      <<LIST_SEPARATOR, "OPT_RECURSE", LIST_SEPARATOR>>,
      <<LIST_SEPARATOR, "LOCAL_DIR", LIST_SEPARATOR, "a", BACKSLASH>>,
      <<LIST_SEPARATOR, "RLOGIN", LIST_SEPARATOR, "a", LIST_SEPARATOR, HASH,
        LIST_SEPARATOR, BACKSLASH>>,
      <<>>,
      <<HASH, "a">>,
      <<"a">>,
      <<LIST_SEPARATOR, "RLOGIN">>,
      <<LIST_SEPARATOR, "RLOGIN", LIST_SEPARATOR, "a", LIST_SEPARATOR, "a">>,
      <<LIST_SEPARATOR, LIST_SEPARATOR, "a">> }

\* The texts of n lines, each but the last ended by LF
RECURSIVE TextsOfLines(_)
TextsOfLines(n) ==
    IF n = 0 THEN { <<>> }
    ELSE IF n = 1 THEN ConfigFileLines
    ELSE { l \o <<LF>> \o rest : l \in ConfigFileLines, rest \in TextsOfLines(n - 1) }

\* The config files: up to MaxConfigLines lines, the last with or without LF
ConfigFileTexts ==
    LET open == UNION { TextsOfLines(n) : n \in 0..MaxConfigLines }
    IN  open \cup { s \o <<LF>> : s \in open \ { <<>> } }

InitCascade ==
    /\ content \in ConfigFileTexts
    /\ orig = content
    /\ position = 0
    /\ lines = <<>>
    /\ tstate = "reading"
    /\ parsed = None
    /\ cfg = Config_new
    /\ lastSet = None
    /\ decl = None
    /\ resolved = None
    /\ ProcIdle
    /\ mode = "configure"
    /\ ops = OperationsFrom("configure")
    /\ config = ConfigNew
    /\ lf = <<>>
    /\ fs = <<>>
    /\ fs0 = <<>>
    /\ run = "first"
    /\ idx = 0
    /\ pc = "load_config"
    /\ acts = <<>>
    /\ out = <<>>
    /\ rets = <<>>
    /\ handed = <<>>
    /\ virgin = FALSE
    /\ start = [state |-> "Missing", origin |-> NoOrigin]
    /\ failed = {}

NextCascade ==
    \/ LoadConfigLine
    \/ LoadFromEnvPrefix
    \/ SetFromEnv
    \/ EnterListfile
    \/ InlineConfigLine

SpecCascade == InitCascade /\ [][NextCascade]_vars

(***************************************************************************)
(* C12                                                                     *)
(***************************************************************************)
\* The text ends with a backslash that escapes nothing and is not escaped
RECURSIVE EndsWithBareBackslash(_)
EndsWithBareBackslash(s) ==
    IF s = <<>> THEN FALSE
    ELSE IF s[1] = BACKSLASH
         THEN IF Len(s) = 1 THEN TRUE ELSE EndsWithBareBackslash(Drop(s, 2))
    ELSE EndsWithBareBackslash(Tail(s))

NoHash(s) == \A k \in 1..Len(s) : s[k] # HASH

\* No cell of the Lines holds a backslash
NoBackslashCell(ls) ==
    \A i \in 1..Len(ls) : \A j \in 1..Len(ls[i]) : \A k \in 1..Len(ls[i][j]) :
        ls[i][j][k] # BACKSLASH

\* main has gone past load_from_file
PastLoad == pc \in {"env", "env_vars", "ready", "listfile"}

\* C12 as stated: whenever the config file ends with an unescaped backslash,
\* reading it (when it comes to an end at all) yields the grammar error, and
\* load_from_file never returns Ok.
C12_AsStated ==
    (EndsWithBareBackslash(content) /\ ReadAll(content).tstate # "overflow") =>
        /\ ReadAll(content).tstate = "error"
        /\ ~PastLoad

\* C12, amended: a text without comment marker that ends with an unescaped
\* backslash is tokenized to the grammar error and never to a cell holding the
\* bare backslash; the grammar error arises from such a backslash only; and
\* when the iterator gives the error to load_from_file the run is aborted:
\* main never reaches the environment or the listfile, nothing is handed to
\* process_repo and no external call is made.
C12_TrailingBackslashAborts ==
    /\ (EndsWithBareBackslash(content) /\ NoHash(content)) =>
          /\ ReadAll(content).tstate = "error"
          /\ NoBackslashCell(ReadAll(content).lines)
          /\ ~PastLoad
    /\ tstate = "error" =>
          /\ pc = "aborted"
          /\ EndsWithBareBackslash(content)
          /\ NoBackslashCell(lines)
          /\ handed = <<>> /\ acts = <<>> /\ idx = 0
    /\ PastLoad => tstate = "end"

C12_Witness ==
    /\ content = <<LIST_SEPARATOR, "RLOGIN", LIST_SEPARATOR, "a", LF,
                   LIST_SEPARATOR, "LOCAL_DIR", LIST_SEPARATOR, "a", BACKSLASH>>
    /\ tstate = "error"
    /\ pc = "aborted"
    /\ cfg.rlogin = <<"a">>

(***************************************************************************)
(* C20                                                                     *)
(***************************************************************************)
ConfigFields == DOMAIN Config_new

\* C20: after a call of set_from_string from the config file, the environment
\* or an inline listfile line, the Config differs from the one before in at
\* most the setting the key names, which holds the value; with an unknown key
\* it is the Config before; and the call does not end the run.
C20_SetFromStringFrame ==
    lastSet # None =>
        LET call == lastSet[1]
        IN  /\ call.source \in {"file", "env", "listfile"}
            /\ pc \notin {"aborted", "hung"}
            /\ IF call.key \in KnownKeys
               THEN /\ \A f \in ConfigFields \ {FieldOf(call.key)} : cfg[f] = call.before[f]
                    /\ cfg[FieldOf(call.key)] =
                          IF call.key = <<"OPT_RECURSE">> THEN call.value # <<>>
                                                          ELSE call.value
               ELSE cfg = call.before

C20_Witness ==
    /\ lastSet # None
    /\ lastSet[1].source = "listfile"
    /\ lastSet[1].key = <<"BOGUS">>
    /\ lastSet[1].value = <<"a">>
    /\ cfg = lastSet[1].before
    /\ cfg.rlogin = <<"a">>
    /\ cfg.config_cmd = <<"a">>

(***************************************************************************)
(* The resolution of one declaration, for every declaration and Config of  *)
(* a small family.                                                         *)
(***************************************************************************)
MaxPath == 3

\* Remote cells: the first cell of a declaration is never empty
\* (process_repo_line, main.rs 246)
RemoteCells == StringsUpTo({SLASH, "a", DOT_GIT}, MaxPath) \ { <<>> }
LocalCells == { <<>>, <<"b">>, <<SLASH, "b">> }
MediaCells == { <<>>, <<"m">>, <<SLASH, "m">> }

\* Lines of one, two and three cells
DeclCells ==
    { <<r>> : r \in RemoteCells }
      \cup { <<r, l>> : r \in RemoteCells, l \in LocalCells }
      \cup { <<r, l, m>> : r \in RemoteCells, l \in LocalCells, m \in MediaCells }

ListDir == <<SLASH, "c">>

ResolveConfigs ==
    { [Config_new EXCEPT !.local_dir = ld, !.gm_dir = gd, !.remote_dir = rd,
                         !.rpath_base = rb, !.rlogin = rl, !.tree_filter = tf] :
        ld \in { <<>>, <<"w">> },
        gd \in { <<>>, <<"g">> },
        rd \in { <<>>, <<"r">> },
        rb \in { <<>>, <<"o">>, <<SLASH, "o">> },
        rl \in { <<>>, <<"u@h">>, <<"ssh", SCHEME_SEP, "h">>, <<"https", SCHEME_SEP, "h", SLASH>> },
        tf \in { <<>>, <<"w">>, <<"c", BACKSLASH, "w">> } }

InitResolve ==
    /\ TokIdle
    /\ EngineIdle
    /\ parsed = None
    /\ lastSet = None
    /\ cfg \in ResolveConfigs
    /\ decl \in { Some([cells |-> c, cwd |-> ListDir]) : c \in DeclCells }
    /\ resolved = None
    /\ ProcIdle

NextResolve ==
    \/ ProcessRepoCells
    \/ GetRemoteUrl
    \/ CreateNewRemote

SpecResolve == InitResolve /\ [][NextResolve]_vars

(***************************************************************************)
(* C16                                                                     *)
(***************************************************************************)
\* The final '/'-delimited component of r, with one trailing ".git" removed
FinalComponent(r) ==
    IF \E i \in 1..Len(r) : r[i] = SLASH
    THEN LET last == CHOOSE i \in 1..Len(r) :
                        r[i] = SLASH /\ \A k \in (i + 1)..Len(r) : r[k] # SLASH
         IN  SubSeq(r, last + 1, Len(r))
    ELSE r

Basename(r) ==
    LET t == FinalComponent(r)
    IN  IF t # <<>> /\ t[Len(t)] = DOT_GIT THEN SubSeq(t, 1, Len(t) - 1) ELSE t

CellGiven(cells, k) == Len(cells) >= k /\ cells[k] # <<>>

\* C16 as stated: local_rel is the basename of the remote cell whenever the
\* local cell is empty or absent, and media_rel is that same basename whenever
\* the media cell is empty or absent, whatever the local cell is.
C16_DefaultsFromBasename ==
    resolved # None =>
        LET cells == decl[1].cells
        IN  /\ ~CellGiven(cells, 2) => resolved[1].local_rel = Basename(cells[1])
            /\ ~CellGiven(cells, 3) => resolved[1].media_rel = Basename(cells[1])

\* The declaration /a.git * b: the media cell is absent, the local cell is
\* b, and media_rel is b, not the basename a.
C16_MediaFollowsLocal ==
    /\ decl # None
    /\ decl[1].cells = << <<SLASH, "a", DOT_GIT>>, <<"b">> >>
    /\ resolved # None
    /\ resolved[1].local_rel = <<"b">>
    /\ resolved[1].media_rel = <<"b">>
    /\ Basename(decl[1].cells[1]) = <<"a">>

(***************************************************************************)
(* C17                                                                     *)
(***************************************************************************)
IsAbsolute(p) == p # <<>> /\ p[1] = SLASH

\* The qualified path of the claim, where the claim fixes it: the third case
\* is read for a base that is not empty
QualifiedAsClaimed(base, component, path) ==
    IF IsAbsolute(component) THEN path = component
    ELSE IF component = <<>> THEN path = base
    ELSE base # <<>> => path = base \o <<SLASH>> \o component

\* C17 as stated: the local, the media and the remote path are the relative
\* component unchanged when it begins with '/', the bare base directory when
\* the component is empty, and base + "/" + component otherwise.
C17_QualifiedPaths ==
    resolved # None =>
        /\ QualifiedAsClaimed(cfg.local_dir, resolved[1].local_rel, resolved[1].local_path)
        /\ QualifiedAsClaimed(cfg.gm_dir, resolved[1].media_rel, resolved[1].media_path)
        /\ resolved[1].remote_path # None =>
              QualifiedAsClaimed(cfg.remote_dir, resolved[1].remote_rel,
                                 resolved[1].remote_path[1])

\* The local cell /b under the local directory w: the path is w//b, not /b
C17_AbsoluteUnderBase ==
    /\ resolved # None
    /\ cfg.local_dir = <<"w">>
    /\ resolved[1].local_rel = <<SLASH, "b">>
    /\ resolved[1].local_path = <<"w", SLASH, SLASH, "b">>

(***************************************************************************)
(* C18                                                                     *)
(***************************************************************************)
RECURSIVE WithoutLeadingSlashes(_)
WithoutLeadingSlashes(s) ==
    IF IsAbsolute(s) THEN WithoutLeadingSlashes(Tail(s)) ELSE s

RECURSIVE WithoutTrailingSlashes(_)
WithoutTrailingSlashes(s) ==
    IF s # <<>> /\ s[Len(s)] = SLASH
    THEN WithoutTrailingSlashes(SubSeq(s, 1, Len(s) - 1)) ELSE s

\* left and right with exactly one '/' between them
JoinedOnce(left, right) ==
    WithoutTrailingSlashes(left) \o <<SLASH>> \o WithoutLeadingSlashes(right)

HasScheme(login) == \E i \in 1..Len(login) : login[i] = SCHEME_SEP

\* C18 as stated: without a login the URL is base/path, and the path itself,
\* with no leading '/' added, when the base is empty; with a scheme://host
\* login it is scheme://host/base/path with exactly one '/' between host, base
\* and path; with a bareword login it is login:base/path.  The path is the
\* remote relative path qualified by the remote directory.
C18_ThreeShapes ==
    (resolved # None /\ resolved[1].url # None) =>
        LET url == resolved[1].url[1]
            path == resolved[1].remote_path[1]
            base == cfg.rpath_base
            login == WithoutTrailingSlashes(cfg.rlogin)
        IN  /\ path = get_remote_repo_path(cfg, resolved[1].remote_rel)
            /\ IF login = <<>>
               THEN url = IF base = <<>> THEN path ELSE JoinedOnce(base, path)
               ELSE IF HasScheme(login)
               THEN url = IF WithoutLeadingSlashes(base) = <<>> THEN JoinedOnce(login, path)
                          ELSE JoinedOnce(login, JoinedOnce(base, path))
               ELSE base # <<>> => url = login \o <<":">> \o JoinedOnce(base, path)

\* No login and no base: the remote cell a gives the URL /a
C18_LeadingSlashWithoutBase ==
    /\ resolved # None
    /\ cfg.rlogin = <<>>
    /\ cfg.rpath_base = <<>>
    /\ resolved[1].remote_path = Some(<<"a">>)
    /\ resolved[1].url = Some(<<SLASH, "a">>)

(***************************************************************************)
(* C19                                                                     *)
(***************************************************************************)
SeparatorNormalized(s) == [i \in DOMAIN s |-> IF s[i] = BACKSLASH THEN SLASH ELSE s[i]]

\* The local path seen from the directory the listfile is read in
AbsoluteLocalPath(cwd, p) == IF IsAbsolute(p) THEN p ELSE cwd \o <<SLASH>> \o p

\* sub occurs in s, at any place
OccursIn(sub, s) ==
    \E k \in 1..(Len(s) + 1) :
        \A j \in 1..Len(sub) : k + j - 1 <= Len(s) /\ s[k + j - 1] = sub[j]

\* C19: a declaration is passed to the engine if and only if the tree filter
\* is empty or the separator-normalized absolute local path contains the
\* normalized filter somewhere; for a declaration that is not passed
\* process_repo is never entered, so that not even its URL is asked for.
C19_TreeFilter ==
    resolved # None =>
        LET abs == SeparatorNormalized(AbsoluteLocalPath(decl[1].cwd, resolved[1].local_path))
            filter == SeparatorNormalized(cfg.tree_filter)
        IN  /\ resolved[1].engine <=> (cfg.tree_filter = <<>> \/ OccursIn(filter, abs))
            /\ ~resolved[1].engine =>
                  resolved[1].url = None /\ resolved[1].remote_path = None

\* The filter c\w and the local path /c/w/a: the filter is found in the
\* middle of the path and the declaration reaches the engine
C19_Witness ==
    /\ resolved # None
    /\ cfg.tree_filter = <<"c", BACKSLASH, "w">>
    /\ decl[1].cwd = <<SLASH, "c">>
    /\ resolved[1].local_path = <<"w", SLASH, "a">>
    /\ resolved[1].engine
    /\ resolved[1].url # None

(***************************************************************************)
(* C21                                                                     *)
(***************************************************************************)
\* The variables the root process honours
RootAllowList == { <<"CONFIG_FILENAME">>, <<"LIST_FN">>, <<"CONFIG_CMD">> }

\* The Config a root process has after load_from_env if only the allow-listed
\* variables of the environment e count: the Config of the file, with no
\* recursion prefix, and with the allow-listed variables that are set
ExpectedAtRoot(fc, e) ==
    [f \in DOMAIN fc |->
        IF f = "recurse_prefix" THEN <<>>
        ELSE IF \E k \in RootAllowList \cap DOMAIN e : FieldOf(k) = f /\ e[k] # None
             THEN LET k == CHOOSE k \in RootAllowList \cap DOMAIN e : FieldOf(k) = f
                  IN  e[k][1]
             ELSE fc[f]]

\* C21 as stated: after load_from_env in a process started by the user, the
\* Config depends on the environment through CONFIG_FILENAME, LIST_FN and
\* CONFIG_CMD only, so that two environments that agree on these three give
\* the same Config, whatever RLOGIN, RECURSE_PREFIX or other GRM_ variables
\* they carry.
C21_OnlyAllowListedVariables ==
    pc = "ready" => cfg = ExpectedAtRoot(fileCfg[1], environ[1])

\* An environment that carries GRM_RECURSE_PREFIX and GRM_RLOGIN: the login
\* of the environment is in the Config
C21_PrefixOpensTheGate ==
    /\ pc = "ready"
    /\ environ[1][RECURSE_PREFIX] = Some(<<"sub/">>)
    /\ environ[1][<<"RLOGIN">>] = Some(<<"a">>)
    /\ environ[1][<<"CONFIG_CMD">>] = None
    /\ fileCfg[1].rlogin = <<>>
    /\ cfg.rlogin = <<"a">>

(***************************************************************************)
(* The scan of a listfile and the spawning of a child, from every Config   *)
(* the cascade of main can have built.                                     *)
(***************************************************************************)
\* What load_from_file can leave: the defaults, with or without a login
FileConfigs == { [Config_new EXCEPT !.rlogin = rl] : rl \in { <<>>, <<"a">> } }

\* main has loaded the file and the environment and stored the tree filter
\* (main.rs 493-520), and process_listfile begins
InitScan ==
    /\ TokIdle
    /\ parsed = None
    /\ lastSet = None
    /\ decl = None
    /\ resolved = None
    /\ \E fc \in FileConfigs, e \in Environments :
          /\ fileCfg = Some(fc)
          /\ environ = Some(e)
          /\ cfg = [load_from_env(fc, e) EXCEPT !.tree_filter = StartDir]
    /\ todo = {}
    /\ seen = <<>>
    /\ child = None
    /\ SysIdle
    /\ mode = "configure"
    /\ ops = OperationsFrom("configure")
    /\ config = ConfigNew
    /\ lf = <<>>
    /\ fs = <<>>
    /\ fs0 = <<>>
    /\ run = "first"
    /\ idx = 0
    /\ pc = "listfile"
    /\ acts = <<>>
    /\ out = <<>>
    /\ rets = <<>>
    /\ handed = <<>>
    /\ virgin = FALSE
    /\ start = [state |-> "Missing", origin |-> NoOrigin]
    /\ failed = {}

NextScan ==
    \/ InlineConfigLine
    \/ DeclarationLine
    \/ SpawnChild

SpecScan == InitScan /\ [][NextScan]_vars

(***************************************************************************)
(* C22                                                                     *)
(***************************************************************************)
\* The settings the cascade of the model gives from more than one source
CascadeKeys == { <<"RLOGIN">>, <<"CONFIG_CMD">> }

\* The inline lines for key among the first n lines of the listfile
InlineLines(key, n) ==
    { j \in 1..n : seen[j].kind = "inline" /\ seen[j].key = key }

LastInline(key, n) == CHOOSE j \in InlineLines(key, n) : \A k \in InlineLines(key, n) : k <= j

\* The environment variable key is set and this process honours it
Honoured(key) ==
    /\ environ[1][key] # None
    /\ \/ key \in RootAllowList
       \/ environ[1][RECURSE_PREFIX] \notin {None, Some(<<>>)}

\* The value of the cascade for key after the first n lines of the listfile:
\* the last inline line, else the honoured environment variable, else the file
CascadeValue(key, n) ==
    IF InlineLines(key, n) # {} THEN seen[LastInline(key, n)].value
    ELSE IF Honoured(key) THEN environ[1][key][1]
    ELSE fileCfg[1][FieldOf(key)]

\* C22 as stated: every declaration is resolved with, for each setting, the
\* value of the last inline line before it, else of the honoured environment
\* variable, else of the config file; and a child spawned after the scan has,
\* for each setting an inline line gave, the value of the last such line.
C22_CascadeOrder ==
    /\ \A i \in 1..Len(seen) :
          seen[i].kind = "decl" =>
              \A key \in CascadeKeys : seen[i].cfg[FieldOf(key)] = CascadeValue(key, i - 1)
    /\ child # None =>
          \A key \in CascadeKeys :
              InlineLines(key, Len(seen)) # {} =>
                  child[1].cfg[FieldOf(key)] = seen[LastInline(key, Len(seen))].value

\* The file gives the login a and the listfile line `* RLOGIN *` clears it:
\* the parent goes on without a login, the child has the login a again
C22_ClearedSettingReturns ==
    /\ fileCfg = Some([Config_new EXCEPT !.rlogin = <<"a">>])
    /\ environ[1][<<"RLOGIN">>] = None
    /\ Len(seen) = 2
    /\ seen[1].kind = "inline" /\ seen[1].key = <<"RLOGIN">> /\ seen[1].value = <<>>
    /\ seen[2].kind = "decl" /\ seen[2].cfg.rlogin = <<>>
    /\ child # None
    /\ child[1].env[<<"RLOGIN">>] = None
    /\ child[1].cfg.rlogin = <<"a">>

(***************************************************************************)
(* One text read in both contexts: as the config file by load_from_file,   *)
(* and as a listfile by process_listfile.                                  *)
(***************************************************************************)
InitLines ==
    /\ content \in ConfigFileTexts
    /\ orig = content
    /\ position = 0
    /\ lines = <<>>
    /\ tstate = "reading"
    /\ parsed = None
    /\ lastSet = None
    /\ decl = None
    /\ resolved = None
    /\ \/ /\ pc = "load_config"
          /\ cfg = Config_new
          /\ fileCfg = None
          /\ environ = None
       \/ /\ pc = "scan"
          /\ cfg = [Config_new EXCEPT !.tree_filter = StartDir]
          /\ fileCfg = Some(Config_new)
          /\ environ = Some([k \in EnvKeys \cup {RECURSE_PREFIX} |-> None])
    /\ todo = {}
    /\ seen = <<>>
    /\ child = None
    /\ SysIdle
    /\ mode = "configure"
    /\ ops = OperationsFrom("configure")
    /\ config = ConfigNew
    /\ lf = <<>>
    /\ fs = <<>>
    /\ fs0 = <<>>
    /\ run = "first"
    /\ idx = 0
    /\ acts = <<>>
    /\ out = <<>>
    /\ rets = <<>>
    /\ handed = <<>>
    /\ virgin = FALSE
    /\ start = [state |-> "Missing", origin |-> NoOrigin]
    /\ failed = {}

NextLines ==
    \/ LoadConfigLine
    \/ ScanListfileLine

SpecLines == InitLines /\ [][NextLines]_vars

(***************************************************************************)
(* C23                                                                     *)
(***************************************************************************)
InConfigFile == pc \in {"load_config", "env", "aborted", "hung"}
InListfile == pc \in {"scan", "scanned", "scan_error", "scan_hung"}

\* A Line that begins with the separator but is not `* KEY * VALUE`
MiscountedConfigLine(cells) == cells[1] = <<>> /\ Len(cells) # 3

C23_WitnessFile ==
    /\ content = <<LIST_SEPARATOR, "RLOGIN", LF, "a">>
    /\ pc = "aborted"
    /\ lines = << <<<<>>, <<"RLOGIN">>>> >>

(***************************************************************************)
(* C24                                                                     *)
(***************************************************************************)
ListingFlagNames == {"list_rrel", "list_rurl", "list_lrel"}
ActingFlagNames == {"clone", "configure", "set_remote", "git", "new"}

ListingFlags(o) == { f \in ListingFlagNames : o[f] }
ActingFlags(o) == { f \in ActingFlagNames : o[f] }

\* The OperationSet is well formed: every flag has a value, at most one
\* listing flag is set, and with a listing flag no acting flag is set
WellFormedOperations(o) ==
    /\ ListingFlagNames \cup ActingFlagNames \subseteq DOMAIN o
    /\ \A f \in DOMAIN o : o[f] \in BOOLEAN
    /\ Cardinality(ListingFlags(o)) <= 1
    /\ ListingFlags(o) # {} => ActingFlags(o) = {}

\* C24: under every primary mode the OperationSet in force is the one the
\* mode maps to, at most one listing flag is set, with a listing flag none of
\* clone, configure, set-remote, run-git, create-new is set, and no step of
\* the processing of an entry changes the OperationSet.
C24_OperationSetFixed ==
    /\ [](ops = OperationsFrom(mode) /\ WellFormedOperations(ops))
    /\ [][ops' = ops]_vars

\* A listing run that has handed two declarations to process_repo
C24_Witness ==
    /\ mode = "list-rurl"
    /\ ops.list_rurl
    /\ pc = "done"
    /\ Len(handed) = 2

(***************************************************************************)
(* recursive.rs: recurse_listfiles walks the directory of the listfile and *)
(* runs a child in every subdirectory that holds a listfile.               *)
(***************************************************************************)
\* Entries a directory holds at most, and entries of a subdirectory
MaxEntries == 2
MaxSub == 1

\* What recurse_listfiles tells apart in a directory entry (recursive.rs 24-43):
\* not a directory, a hidden directory, a directory holding a listfile, a
\* directory without one, and a directory without one that cannot be read.
EntryKinds == {"file", "hidden", "listfile", "dir", "unreadable"}

Leaves == { [kind |-> k, sub |-> <<>>] : k \in EntryKinds }

SubDirs == UNION { [1..n -> Leaves] : n \in 0..MaxSub }

DirEntries == Leaves \cup { [kind |-> "dir", sub |-> s] : s \in SubDirs }

Trees == UNION { [1..n -> DirEntries] : n \in 0..MaxEntries }

\* The entries of the directory at path, a sequence of positions from the top
RECURSIVE EntriesAt(_, _)
EntriesAt(entries, path) ==
    IF path = <<>> THEN entries
    ELSE EntriesAt(entries[Head(path)].sub, Tail(path))

\* The exit of a child: it could not be started, or it ended with a code
ChildOutcomes ==
    { [spawned |-> FALSE, code |-> 0] } \cup { [spawned |-> TRUE, code |-> c] : c \in {0, 1} }

Frame(dir, pos) == [dir |-> dir, pos |-> pos]

Top == stack[Len(stack)]

\* The entry the loop of the innermost call is at
CurrentEntry == EntriesAt(tree, Top.dir)[Top.pos + 1]

\* The loop of the innermost call goes on with its next entry
NextEntry == [stack EXCEPT ![Len(stack)].pos = Top.pos + 1]

\* Frame of a step of the walk
RecurseFrame ==
    /\ UNCHANGED <<mode, ops, config, lf, fs, fs0, run, idx, acts, handed, virgin, start, failed>>
    /\ UNCHANGED <<tokVars, pureVars, procVars, tree, argv, invoked>>

\* An error ends every call in progress at its `?` (recursive.rs 36, 43);
\* process_listfile logs it (main.rs 206-208) and main returns Ok (main.rs 531).
RecursionFailed ==
    /\ stack' = <<>>
    /\ out' = Append(out, "Error during recursion")
    /\ rets' = Append(rets, Ret("main", TRUE))
    /\ pc' = "done"

\* How recurse_listfiles takes the failure of a child (recursive.rs 36)
ChildFailed == RecursionFailed

\* process_listfile after its loop (main.rs 202-210): the walk starts when
\* operations.recurse is set
ProcessSubdirectories ==
    /\ pc = "end_of_scan"
    /\ \E recurse \in BOOLEAN :
         IF recurse
         THEN /\ stack' = <<Frame(<<>>, 0)>>
              /\ pc' = "recurse"
              /\ UNCHANGED rets
         ELSE /\ UNCHANGED stack
              /\ pc' = "done"
              /\ rets' = Append(rets, Ret("main", TRUE))
    /\ UNCHANGED <<out, spawns>>
    /\ RecurseFrame

\* recurse_listfiles (recursive.rs 24-30): an entry that is not a directory,
\* or a hidden directory, is passed over
RecurseSkip ==
    /\ pc = "recurse"
    /\ Top.pos < Len(EntriesAt(tree, Top.dir))
    /\ CurrentEntry.kind \in {"file", "hidden"}
    /\ stack' = NextEntry
    /\ UNCHANGED <<pc, out, rets, spawns>>
    /\ RecurseFrame

\* get_mode_string (main.rs 216-227): the mode string process_listfile gives
\* to recurse_listfiles, found from the flags of the Operations in this order
get_mode_string(o) ==
    IF o.list_lrel THEN "list-lrel"
    ELSE IF o.list_rrel THEN "list-rrel"
    ELSE IF o.list_rurl THEN "list-rurl"
    ELSE IF o.clone THEN "clone"
    ELSE IF o.configure THEN "configure"
    ELSE IF o.set_remote THEN "set-remote"
    ELSE IF o.git THEN "git"
    ELSE IF o.new THEN "new"
    ELSE "status"

\* recurse_to_subdirectory (recursive.rs 50-114), called at recursive.rs 36
\* for a directory that holds a listfile: the child is started with the mode
\* string as its only argument (recursive.rs 100-102) and runs to its end
RecurseToSubdirectory ==
    /\ pc = "recurse"
    /\ Top.pos < Len(EntriesAt(tree, Top.dir))
    /\ CurrentEntry.kind = "listfile"
    /\ \E o \in ChildOutcomes :
         /\ spawns' = Append(spawns, [path |-> Append(Top.dir, Top.pos + 1),
                                      mode |-> get_mode_string(ops),
                                      spawned |-> o.spawned, code |-> o.code])
         /\ IF Succeeded(o)
            THEN /\ stack' = NextEntry
                 /\ UNCHANGED <<pc, out, rets>>
            ELSE ChildFailed
    /\ RecurseFrame

\* recurse_listfiles (recursive.rs 43, 17-18): a directory without a listfile
\* is walked by a nested call, which fails when it cannot read the directory
RecurseDescend ==
    /\ pc = "recurse"
    /\ Top.pos < Len(EntriesAt(tree, Top.dir))
    /\ CurrentEntry.kind \in {"dir", "unreadable"}
    /\ IF CurrentEntry.kind = "dir"
       THEN /\ stack' = Append(stack, Frame(Append(Top.dir, Top.pos + 1), 0))
            /\ UNCHANGED <<pc, out, rets>>
       ELSE RecursionFailed
    /\ UNCHANGED spawns
    /\ RecurseFrame

\* recurse_listfiles (recursive.rs 46): the entries are exhausted, the call
\* returns Ok to its caller
RecurseReturn ==
    /\ pc = "recurse"
    /\ Top.pos = Len(EntriesAt(tree, Top.dir))
    /\ IF Len(stack) = 1
       THEN /\ stack' = <<>>
            /\ pc' = "done"
            /\ rets' = Append(rets, Ret("main", TRUE))
       ELSE /\ stack' = [SubSeq(stack, 1, Len(stack) - 1) EXCEPT
                            ![Len(stack) - 1].pos = stack[Len(stack) - 1].pos + 1]
            /\ UNCHANGED <<pc, rets>>
    /\ UNCHANGED <<out, spawns>>
    /\ RecurseFrame

\* process_listfile has taken every line of the listfile of a directory tree
InitRecurse ==
    /\ TokIdle
    /\ PureIdle
    /\ mode \in PrimaryModes
    /\ ops = OperationsFrom(mode)
    /\ config = ConfigNew
    /\ lf = <<>>
    /\ fs = <<>>
    /\ fs0 = <<>>
    /\ run = "first"
    /\ idx = 0
    /\ pc = "end_of_scan"
    /\ acts = <<>>
    /\ out = <<>>
    /\ rets = <<>>
    /\ handed = <<>>
    /\ virgin = FALSE
    /\ start = [state |-> "Missing", origin |-> NoOrigin]
    /\ failed = {}
    /\ environ = None
    /\ todo = {}
    /\ fileCfg = None
    /\ seen = <<>>
    /\ child = None
    /\ tree \in Trees
    /\ stack = <<>>
    /\ spawns = <<>>
    /\ argv = <<>>
    /\ invoked = None

NextRecurse ==
    \/ ProcessSubdirectories
    \/ RecurseSkip
    \/ RecurseToSubdirectory
    \/ RecurseDescend
    \/ RecurseReturn

SpecRecurse == InitRecurse /\ [][NextRecurse]_vars

(***************************************************************************)
(* C25                                                                     *)
(***************************************************************************)
\* The subdirectories the walk is to run a child in: those holding a listfile,
\* at the top or inside a directory without one
ListfileDirs ==
    { <<i>> : i \in { k \in 1..Len(tree) : tree[k].kind = "listfile" } }
        \cup { <<p[1], p[2]>> : p \in { q \in (1..Len(tree)) \X (1..MaxSub + 1) :
                                     /\ tree[q[1]].kind = "dir"
                                     /\ q[2] <= Len(tree[q[1]].sub)
                                     /\ tree[q[1]].sub[q[2]].kind = "listfile" } }

SpawnedDirs == { spawns[i].path : i \in 1..Len(spawns) }

SomeChildFailed == \E i \in 1..Len(spawns) : spawns[i].spawned /\ spawns[i].code # 0

\* Every directory of the tree can be read and every child could be started
NoOtherError ==
    /\ \A i \in 1..Len(tree) :
          /\ tree[i].kind # "unreadable"
          /\ \A j \in 1..Len(tree[i].sub) : tree[i].sub[j].kind # "unreadable"
    /\ \A i \in 1..Len(spawns) : spawns[i].spawned

\* C25: when a child has exited non-zero, the run still ends successfully,
\* the failure is logged, and every subdirectory holding a listfile has had
\* its child run, whatever the order in which the directory was read.
C25_ChildFailureIsAWarning ==
    (pc = "done" /\ SomeChildFailed /\ NoOtherError)
        => /\ ListfileDirs \subseteq SpawnedDirs
           /\ rets = <<Ret("main", TRUE)>>
           /\ out # <<>>

\* The walk ended with the failure of the last of two children, one of them
\* in a subdirectory of a directory without a listfile
C25_LastChildFailed ==
    /\ pc = "done"
    /\ Len(spawns) = 2
    /\ spawns[2].spawned /\ spawns[2].code = 1
    /\ ListfileDirs = SpawnedDirs
    /\ \E p \in ListfileDirs : Len(p) = 2

(***************************************************************************)
(* main.rs 506-510, main.rs 151-156 and repository.rs 228-235: the         *)
(* trailing command-line arguments on their way to git.                    *)
(***************************************************************************)
\* Trailing arguments on the command line at most, and symbols in one of them
MaxArgs == 2
MaxArgLen == 2

SPACE == " "

ArgSymbols == {"a", "b", SPACE}

\* A command-line argument: any text, also empty or with whitespace in it
Arguments == UNION { [1..n -> ArgSymbols] : n \in 0..MaxArgLen }

ArgLists == UNION { [1..n -> Arguments] : n \in 0..MaxArgs }

\* args.args.join(" ") (main.rs 508)
RECURSIVE Join(_)
Join(args) ==
    IF args = <<>> THEN <<>>
    ELSE IF Len(args) = 1 THEN args[1]
    ELSE args[1] \o <<SPACE>> \o Join(Tail(args))

\* The first word of s and what follows it, leading whitespace skipped
RECURSIVE TakeWord(_, _)
TakeWord(word, s) ==
    IF s = <<>> \/ IsWhitespace(s[1]) THEN [word |-> word, rest |-> s]
    ELSE TakeWord(Append(word, s[1]), Tail(s))

\* str::split_whitespace (repository.rs 231): the maximal runs of symbols
\* that are not whitespace
RECURSIVE split_whitespace(_)
split_whitespace(s) ==
    IF s = <<>> THEN <<>>
    ELSE IF IsWhitespace(s[1]) THEN split_whitespace(Tail(s))
    ELSE LET w == TakeWord(<<>>, s)
         IN  <<w.word>> \o split_whitespace(w.rest)

GitArgsFrame ==
    /\ UNCHANGED <<ops, config, lf, fs, fs0, run, idx, acts, out, rets, handed, virgin, start,
                   failed>>
    /\ UNCHANGED <<tokVars, parsed, lastSet, decl, resolved, procVars, tree, stack, spawns>>

\* main (main.rs 506-510): in git mode the trailing arguments, when there
\* are any, are stored in the Config as one string
StoreGitArgs ==
    /\ pc = "store_git_args"
    /\ cfg' = IF mode = "git" /\ argv # <<>>
              THEN [cfg EXCEPT !.git_args = Join(argv)]
              ELSE cfg
    /\ pc' = "repo"
    /\ UNCHANGED <<mode, argv, invoked>>
    /\ GitArgsFrame

\* process_repo on an existing repository (main.rs 151-156) and
\* run_git_command (repository.rs 229-235, 40-52): git is run with the words
\* of the stored string
RunGitWithArgs ==
    /\ pc = "repo"
    /\ invoked' = IF ops.git /\ cfg.git_args # <<>>
                  THEN Some(Invocation("git", LocalPath(1), split_whitespace(cfg.git_args)))
                  ELSE None
    /\ pc' = "done"
    /\ UNCHANGED <<mode, argv, cfg>>
    /\ GitArgsFrame

\* The settings loaded before the command line is looked at: GIT_ARGS unset,
\* or set by the configuration file
GitArgsConfigs == { Config_new, [Config_new EXCEPT !.git_args = <<"b">>] }

InitGitArgs ==
    /\ TokIdle
    /\ parsed = None
    /\ lastSet = None
    /\ decl = None
    /\ resolved = None
    /\ cfg \in GitArgsConfigs
    /\ environ = None
    /\ todo = {}
    /\ fileCfg = None
    /\ seen = <<>>
    /\ child = None
    /\ tree = <<>>
    /\ stack = <<>>
    /\ spawns = <<>>
    /\ argv \in ArgLists
    /\ invoked = None
    /\ mode \in {"git", "configure"}
    /\ ops = OperationsFrom(mode)
    /\ config = ConfigNew
    /\ lf = <<>>
    /\ fs = <<>>
    /\ fs0 = <<>>
    /\ run = "first"
    /\ idx = 0
    /\ pc = "store_git_args"
    /\ acts = <<>>
    /\ out = <<>>
    /\ rets = <<>>
    /\ handed = <<>>
    /\ virgin = FALSE
    /\ start = [state |-> "Missing", origin |-> NoOrigin]
    /\ failed = {}

NextGitArgs == StoreGitArgs \/ RunGitWithArgs

SpecGitArgs == InitGitArgs /\ [][NextGitArgs]_vars

(***************************************************************************)
(* C26                                                                     *)
(***************************************************************************)
\* C26: in git mode, once process_repo has dealt with a repository, git was
\* run there with exactly the trailing command-line arguments: as many, in
\* the same order, each one unchanged, also an empty one or one with
\* whitespace in it.
C26_GitArgsVerbatim ==
    (pc = "done" /\ mode = "git" /\ argv # <<>>)
        => /\ invoked # None
           /\ invoked[1].program = "git"
           /\ invoked[1].cwd = LocalPath(1)
           /\ invoked[1].args = argv

\* Two arguments without whitespace reach git as they were given
C26_PlainArguments ==
    /\ pc = "done"
    /\ mode = "git"
    /\ argv = << <<"a">>, <<"b", "a">> >>
    /\ invoked # None
    /\ invoked[1].args = argv

(***************************************************************************)
(* C27                                                                     *)
(***************************************************************************)
\* C27: whenever the configure command has been run for an entry, it was run
\* in the working directory of that entry's repository, with the entry's
\* media path as its one and only positional argument.
C27_ConfigureGetsMediaPath ==
    invoked # None
        => \E i \in 1..Len(lf) :
              /\ invoked[1].program = SHELL
              /\ invoked[1].cwd = LocalPath(i)
              /\ invoked[1].args[1] = config.config_cmd
              /\ Tail(invoked[1].args) = <<MediaPath(i)>>

\* The configure command has run in the working directory during create-new
C27_ConfiguredDuringCreateNew ==
    /\ mode = "new"
    /\ pc = "add_git_remote"
    /\ invoked # None
    /\ invoked[1].cwd = LocalPath(idx)
    /\ invoked[1].args[1] = config.config_cmd

(***************************************************************************)
(* C28                                                                     *)
(***************************************************************************)
RequiredSettingUnset ==
    \/ config.rpath_template = NoneVal
    \/ config.rlogin = NoneVal
    \/ config.rpath_base = NoneVal

\* The calls create_new makes, and what it and its caller print
CreateNewCalls == {"ssh_create", "git_init", "configure", "add_git_remote", "checkout_master"}
CreateNewSteps == {"ssh", "git_init", "new_configure", "add_git_remote", "checkout_master"}
CreateNewPrints ==
    {"About to create remote repo", "(aborted)", "Repository created successfully", "created"}

\* Every repository create_new is called for is abandoned with an error before
\* the prompt and before any call, and the declarations after it are taken
AbandonedBeforePrompt ==
    /\ \A i \in 1..Len(acts) : acts[i].kind \notin CreateNewCalls
    /\ \A i \in 1..Len(out) : out[i] \notin CreateNewPrints
    /\ pc \notin CreateNewSteps
    /\ fs = fs0
    /\ Ret("create_new", TRUE) \notin { rets[i] : i \in 1..Len(rets) }
    /\ Ret("create_new", FALSE) \in { rets[i] : i \in 1..Len(rets) }
            => pc \in {"loop", "done"} /\ idx \in failed /\ out[Len(out)] = "Error processing"
    /\ pc = "done" => Len(handed) = Cardinality({ i \in 1..Len(lf) : lf[i].inFilter })

Printed == { out[i] : i \in 1..Len(out) }
Returned == { rets[i] : i \in 1..Len(rets) }

\* The last call for the current declaration was create_new's
\* `git remote add -f origin`: origin is wired, the fetch exited non-zero
FetchFailedAfterWiring ==
    /\ mode = "new"
    /\ acts # <<>>
    /\ acts[Len(acts)].kind = "add_git_remote"
    /\ acts[Len(acts)].spawned
    /\ acts[Len(acts)].code # 0
    /\ fs[idx].origin = GitRemote(idx)

\* C29: when the fetch that follows the wiring of the new origin fails,
\* create-new goes on (to the checkout in a directory that had no .git) and
\* the repository is reported as created, not as failed.
C29_FetchFailureIsAWarning ==
    FetchFailedAfterWiring
        => /\ idx \notin failed
           /\ Ret("create_new", FALSE) \notin Returned
           /\ IF virgin
              THEN pc = "checkout_master"
              ELSE Ret("create_new", TRUE) \in Returned /\ "created" \in Printed

\* The fetch failed after origin was wired, in a directory that had no .git
C29_Witness ==
    /\ FetchFailedAfterWiring
    /\ virgin
    /\ start.state = "Directory"

(***************************************************************************)
(* C30                                                                     *)
(***************************************************************************)
Called == { acts[i].kind : i \in 1..Len(acts) }

\* C30: create-new's ssh call, git init, configure, remote add and checkout
\* happen only after the answer y or Y at the prompt; after any other answer
\* none of them is made, the local path is as it was, and the entry is not
\* reported as created.
C30_NothingWithoutConfirmation ==
    mode = "new"
        => /\ (Called \cap CreateNewCalls # {} \/ pc \in CreateNewSteps)
                => "About to create remote repo" \in Printed /\ "(aborted)" \notin Printed
           /\ "(aborted)" \in Printed
                => /\ Called \cap CreateNewCalls = {}
                   /\ fs[idx] = start
                   /\ "created" \notin Printed
                   /\ "Repository created successfully" \notin Printed

\* The prompt was answered with something else than y: nothing was called
C30_Witness ==
    /\ mode = "new"
    /\ "(aborted)" \in Printed
    /\ Called = {"rev_parse"}
    /\ fs[idx] = start
    /\ pc = "loop"

(***************************************************************************)
(* C31                                                                     *)
(***************************************************************************)
\* The current declaration had a missing local path and the mode asks for
\* clone and set-remote (mode run)
RunOnMissing ==
    /\ CurHanded
    /\ start.state = "Missing"
    /\ ops.clone /\ ops.set_remote /\ ~ops.new /\ ~is_listing_mode(mode)

\* C31 as stated: a missing path under clone and set-remote, every external
\* call successful and CONFIG_CMD set, gets clone, configure, set-remote,
\* checkout: the set-remote step is made between configure and checkout.
C31_SetRemoteAfterClone ==
    (RunOnMissing /\ Finished /\ acts # <<>> /\ AllSucceeded(acts) /\ HasConfigCmd)
        => Kinds(acts) = <<"clone", "configure", "set_url", "checkout">>

\* C31 as amended: on the clone path no set-remote step is made at any time;
\* when every call succeeded the last one is the checkout and origin is the
\* URL the clone was given, the one set-remote would set.
C31_ClonePathWithoutSetRemote ==
    RunOnMissing
        => /\ \A i \in 1..Len(acts) : acts[i].kind \notin SetRemoteKinds
           /\ pc \notin {"set_url", "remote_add"}
           /\ (Finished /\ acts # <<>> /\ AllSucceeded(acts))
                => /\ acts[1].kind = "clone"
                   /\ acts[Len(acts)].kind = "checkout"
                   /\ fs[idx].origin = RemoteUrl(idx)

\* Mode run has cloned, configured and checked out a missing path
C31_Witness ==
    /\ RunOnMissing
    /\ mode = "run"
    /\ Finished
    /\ AllSucceeded(acts)
    /\ Kinds(acts) = <<"clone", "configure", "checkout">>
    /\ fs[idx].origin = RemoteUrl(idx)

(***************************************************************************)
(* C32                                                                     *)
(***************************************************************************)
\* The settings of the Config that are forwarded to a child as they are
ForwardedFields == DOMAIN Config_new \ {"recurse_prefix", "tree_filter"}

\* C32: the Config a spawned child has after its own startup equals, in every
\* forwarded setting, the Config the parent held when it spawned the child
\* (also for a setting the parent's listfile set to the empty string); the
\* display prefix is the parent's, extended by the child's relative path.
C32_ChildStartsFromParentConfig ==
    child # None
        => /\ \A f \in ForwardedFields : child[1].cfg[f] = cfg[f]
           /\ child[1].cfg.recurse_prefix = cfg.recurse_prefix \o SubDir

\* A login given by an inline line of the parent's listfile reached the child
C32_InlineLoginForwarded ==
    /\ child # None
    /\ fileCfg[1].rlogin = <<>>
    /\ Len(seen) >= 1
    /\ seen[1].kind = "inline" /\ seen[1].key = <<"RLOGIN">> /\ seen[1].value = <<"a">>
    /\ cfg.rlogin = <<"a">>
    /\ child[1].cfg.rlogin = <<"a">>
    /\ \A f \in ForwardedFields : child[1].cfg[f] = cfg[f]

(***************************************************************************)
(* C37                                                                     *)
(***************************************************************************)
\* This process is the root invocation: it was given no display prefix
IsRoot == environ[1][RECURSE_PREFIX] \in {None, Some(<<>>)}

\* The GRM_ variables derived from the Config c, and the display prefix
DerivedEnv(c) ==
    [k \in KnownKeys \cup DOMAIN environ[1] |->
        IF k = RECURSE_PREFIX THEN Some(c.recurse_prefix \o SubDir)
        ELSE IF k \in KnownKeys THEN all_values(c)[k]
        ELSE None]

\* C37: the GRM_ variables a spawned child sees are exactly those derived
\* from the parent's Config, plus the display prefix; a variable the root
\* ignored because it is outside the allow-list has no influence on the
\* child's Config.
C37_UntrustedNeverReachesChild ==
    child # None
        => /\ child[1].env = DerivedEnv(cfg)
           /\ IsRoot => child[1].cfg = ChildConfig(DerivedEnv(cfg))

\* The root ignored GRM_RLOGIN, holds no login, and has spawned a child
C37_IgnoredVariableAtRoot ==
    /\ child # None
    /\ IsRoot
    /\ environ[1][<<"RLOGIN">>] = Some(<<"a">>)
    /\ fileCfg[1].rlogin = <<>>
    /\ cfg.rlogin = <<>>

(***************************************************************************)
(* C33                                                                     *)
(***************************************************************************)
\* The first physical line holds a cell and neither a comment nor an escape:
\* each of its separators is unescaped
PlainFirstLine(s) ==
    /\ DropLeadingBlanks(FirstLine(s)) # <<>>
    /\ \A k \in 1..Len(FirstLine(s)) : FirstLine(s)[k] \notin {HASH, BACKSLASH}

SeparatorsIn(s) == Cardinality({ k \in 1..Len(s) : s[k] = LIST_SEPARATOR })

\* C33: a physical line without a comment that holds k unescaped separators
\* yields one Line of exactly k+1 cells, empty cells included; a text that is
\* one such line yields that Line and no other.
C33_SplitOnEverySeparator ==
    (lines # <<>> /\ PlainFirstLine(content))
        => /\ Len(lines[1]) = SeparatorsIn(FirstLine(content)) + 1
           /\ (tstate = "end" /\ FirstLine(content) = content) => Len(lines) = 1

\* The line `* *a`: two separators with a blank between them, three cells
C33_EmptyCellsKept ==
    /\ content = <<LIST_SEPARATOR, " ", LIST_SEPARATOR, "a">>
    /\ tstate = "end"
    /\ lines = << << <<>>, <<>>, <<"a">> >> >>

(***************************************************************************)
(* C34                                                                     *)
(***************************************************************************)
\* The clone of the current declaration exited non-zero or could not be started
CloneFailed ==
    /\ CurHanded
    /\ acts # <<>>
    /\ acts[1].kind = "clone"
    /\ ~(acts[1].spawned /\ acts[1].code = 0)

\* C34: when the clone fails, no other action is invoked for that entry, the
\* error is reported for it, the local path is left as it was, and the
\* declarations after it are still processed.
C34_CloneFailureAbortsEntry ==
    /\ CloneFailed
          => /\ Len(acts) = 1
             /\ pc \in {"loop", "done"}
             /\ rets = <<Ret("clone_repo_no_checkout", FALSE)>>
             /\ out[Len(out)] = "Error processing"
             /\ idx \in failed
             /\ fs[idx] = start
    /\ (pc = "done" /\ ops.clone /\ ~is_listing_mode(mode))
          => Len(handed) = Cardinality({ i \in 1..Len(lf) : lf[i].inFilter })

\* The clone of the second declaration could not be started, after the first
\* declaration was processed, and the run has ended
C34_Witness ==
    /\ CloneFailed
    /\ ~acts[1].spawned
    /\ Len(handed) = 2
    /\ pc = "done"

(***************************************************************************)
(* C35                                                                     *)
(***************************************************************************)
\* C35: every call of next comes back: none recurses on a position that has
\* not moved; every Line yielded has consumed at least one character, the
\* position never passes the end of the content, and after None or an error
\* no further Line is requested.
C35_TokenizerTerminates ==
    /\ tstate # "overflow"
    /\ position <= Len(content)
    /\ Len(lines) <= position
    /\ tstate \in {"end", "error"} => ~ENABLED IterNext

\* The line a was yielded; on the comment line after it next calls itself
\* at the same position without end.
C35_SkippedCommentNeverReturns ==
    /\ content = <<"a", LF, HASH>>
    /\ lines = << <<<<"a">>>> >>
    /\ position = 2
    /\ tstate = "overflow"
    /\ parse_config_line(Drop(content, position)).rest = Drop(content, position)

(***************************************************************************)
(* C36                                                                     *)
(***************************************************************************)
\* C36: the mode string every child is started with is a primary mode whose
\* Operations are those of the parent.
C36_ModeSurvivesRecursion ==
    \A i \in 1..Len(spawns) :
        /\ spawns[i].mode \in PrimaryModes
        /\ OperationsFrom(spawns[i].mode) = ops

\* Under mode run the child was started as clone, which does not set remotes
C36_RunChildStartedAsClone ==
    /\ mode = "run"
    /\ spawns # <<>>
    /\ spawns[1].spawned
    /\ spawns[1].mode = "clone"
    /\ ops.set_remote
    /\ ~OperationsFrom(spawns[1].mode).set_remote

(***************************************************************************)
(* C38                                                                     *)
(***************************************************************************)
\* create_new has wired the origin of the declaration, and the URL that
\* set_remote sets has been computed for it with the same Config
CreatedAndResolved ==
    /\ resolved # None
    /\ resolved[1].created # None
    /\ resolved[1].created[1].ok
    /\ resolved[1].url # None

\* C38: the origin create_new wires is the URL get_remote_url computes for the
\* same declaration and Config, so that set_remote after create_new leaves the
\* origin as it is; and the remote path create_new uses ends in .git.
C38_CreateNewAgreesWithSetRemote ==
    CreatedAndResolved =>
        /\ resolved[1].created[1].origin = resolved[1].url[1]
        /\ resolved[1].created[1].grm_rpath[Len(resolved[1].created[1].grm_rpath)] = DOT_GIT

\* RLOGIN ssh://h, RPATH_BASE /o and the declaration a: create_new wired
\* ssh://h/o/a.git, set_remote would set ssh://h/o/a
C38_SuffixOnlyInCreateNew ==
    /\ CreatedAndResolved
    /\ cfg.rlogin = <<"ssh", SCHEME_SEP, "h">>
    /\ cfg.rpath_base = <<SLASH, "o">>
    /\ cfg.remote_dir = <<>>
    /\ decl[1].cells[1] = <<"a">>
    /\ resolved[1].created[1].origin = <<"ssh", SCHEME_SEP, "h", SLASH, "o", SLASH, "a", DOT_GIT>>
    /\ resolved[1].url[1] = <<"ssh", SCHEME_SEP, "h", SLASH, "o", SLASH, "a">>

====
